---- MODULE Spec2Model ----
(***************************************************************************)
(* A model of texc (src/src/main.c), a kilo-style terminal text editor:    *)
(* the row store, the tab-expanding coordinate mapper, the incremental     *)
(* syntax highlighter with its multi-line-comment cascade, the viewport    *)
(* and the incremental search.  Characters are one-character strings, a    *)
(* C string is a sequence of them, and C index i is TLA+ index i + 1.      *)
(***************************************************************************)
EXTENDS Integers, Sequences, FiniteSets, TLC

\* ------------------------------------------------------------------------
\* Program constants
\* ------------------------------------------------------------------------
TAB_STOP == 8
QUIT_TIMES == 2

HL_NORMAL == "HL_NORMAL"
HL_STRING == "HL_STRING"
HL_NUMBER == "HL_NUMBER"
HL_COMMENT == "HL_COMMENT"
HL_MLCOMMENT == "HL_MLCOMMENT"
HL_KEYWORD1 == "HL_KEYWORD1"
HL_KEYWORD2 == "HL_KEYWORD2"
HL_MATCH == "HL_MATCH"

HL_SYN_NUMBERS == "HL_SYN_NUMBERS"
HL_SYN_STRINGS == "HL_SYN_STRINGS"

\* The terminating '\0' of a C string.
NUL == "NUL"
\* The NULL pointer where an array is expected: a sequence that is no array
\* of characters or of highlight classes.
NULL == <<"NULL">>
TAB == "\t"

C_HL_EXT == << <<".", "c">>, <<".", "h">>, <<".", "c", "p", "p">> >>

C_HL_KEY ==
  << <<"s","w","i","t","c","h">>, <<"i","f">>, <<"w","h","i","l","e">>,
     <<"f","o","r">>, <<"b","r","e","a","k">>,
     <<"c","o","n","t","i","n","u","e">>, <<"r","e","t","u","r","n">>,
     <<"e","l","s","e">>, <<"s","t","r","u","c","t">>, <<"u","n","i","o","n">>,
     <<"t","y","p","e","d","e","f">>, <<"s","t","a","t","i","c">>,
     <<"e","n","u","m">>, <<"c","l","a","s","s">>, <<"c","a","s","e">>,
     <<"i","n","t","|">>, <<"l","o","n","g","|">>,
     <<"d","o","u","b","l","e","|">>, <<"f","l","o","a","t","|">>,
     <<"c","h","a","r","|">>, <<"u","n","s","i","g","n","e","d","|">>,
     <<"s","i","g","n","e","d","|">>, <<"v","o","i","d","|">> >>

\* The syntax database; ec.syntax is an index into it, 0 for NULL.
HLDB ==
  << [filetype |-> "c", filematch |-> C_HL_EXT, keywords |-> C_HL_KEY,
      singleline_comment_start |-> <<"/", "/">>,
      multiline_comment_start |-> <<"/", "*">>,
      multiline_comment_end |-> <<"*", "/">>,
      flags |-> {HL_SYN_NUMBERS, HL_SYN_STRINGS}] >>

HLDB_ENTRIES == Len(HLDB)

\* ------------------------------------------------------------------------
\* Bounds of the model
\* ------------------------------------------------------------------------
\* Most lines of a file the model opens, and most keys the main loop reads
\* (editor_proc_key calls); the prompt's keys are bounded by MaxQuery.
MaxRows == 3
MaxKeys == 3
\* Longest search query typed into the prompt.
MaxQuery == 2
\* Most tokens in a row handed to the keyword classifier on its own.
MaxTokens == 3
\* Calls of the row operations made on their own in one run.
MaxCalls == 2
\* Searches begun in one run.
MaxFinds == 2
\* Longest row handed to the coordinate mappers on their own.
MaxMapLen == 9
\* Most tabs in such a row.
MaxMapTabs == 2
\* The text window reported by get_window_size (two status lines removed).
ScreenRows == 2
ScreenCols == 4

\* ------------------------------------------------------------------------
\* C library
\* ------------------------------------------------------------------------
Digits == {"0", "1", "2", "3", "4", "5", "6", "7", "8", "9"}
isdigit(c) == c \in Digits
isspace(c) == c \in {" ", "\t", "\n", "\r", "\f"}
iscntrl(c) == c \in {"\t", "\n", "\r", "\f"}

\* s[i] of a NUL-terminated string (C index).
CharAt(s, i) == IF i < Len(s) THEN s[i + 1] ELSE NUL

\* !strncmp(&s[i], t, strlen(t)): s holds t at C index i.
StartsWith(s, i, t) ==
  /\ i + Len(t) <= Len(s)
  /\ \A k \in 1..Len(t) : s[i + k] = t[k]

\* memset(&a[i], v, n)
Memset(a, i, v, n) ==
  [k \in 1..Len(a) |-> IF k > i /\ k <= i + n THEN v ELSE a[k]]

\* strstr(s, q) - s: the C offset of the first occurrence of q in s, -1 for
\* a NULL result.  The empty string occurs at offset 0.
Strstr(s, q) ==
  LET hits == {i \in 0..Len(s) : StartsWith(s, i, q)}
  IN IF hits = {} THEN -1 ELSE CHOOSE i \in hits : \A k \in hits : i <= k

\* strrchr(s, ch): the C offset of the last ch in s, -1 for NULL.
Strrchr(s, ch) ==
  LET hits == {i \in 0..Len(s) - 1 : s[i + 1] = ch}
  IN IF hits = {} THEN -1 ELSE CHOOSE i \in hits : \A k \in hits : i >= k

\* ------------------------------------------------------------------------
\* Syntax highlighting
\* ------------------------------------------------------------------------
is_separator(c) ==
  \/ isspace(c)
  \/ c = NUL
  \/ c \in {",", ".", "(", ")", "+", "-", "/", "*", "=", "~", "%", "<", ">",
            "[", "]", ";"}

\* klen of keyword entry kw: its length without the trailing '|' marker.
KeywordLen(kw) == IF kw[Len(kw)] = "|" THEN Len(kw) - 1 ELSE Len(kw)

\* Mutant of KeywordAt: the character behind the keyword is not looked at.
KeywordAt_no_boundary(syn, render, i) ==
  LET hit(j) == StartsWith(render, i, SubSeq(syn.keywords[j], 1, KeywordLen(syn.keywords[j])))
      hits == {j \in 1..Len(syn.keywords) : hit(j)}
  IN IF hits = {} THEN 0 ELSE CHOOSE j \in hits : \A k \in hits : j <= k

\* The index j of the first keyword that matches render at i, 0 for none
\* (the for loop over keywords[j]).
KeywordAt(syn, render, i) ==
  LET hit(j) == /\ StartsWith(render, i, SubSeq(syn.keywords[j], 1, KeywordLen(syn.keywords[j])))
                /\ is_separator(CharAt(render, i + KeywordLen(syn.keywords[j])))
      hits == {j \in 1..Len(syn.keywords) : hit(j)}
  IN IF hits = {} THEN 0 ELSE CHOOSE j \in hits : \A k \in hits : j <= k

\* Mutant of ScanRow: the block comment is looked for inside strings too.
RECURSIVE ScanRow_comment_in_string(_, _, _, _, _, _, _)
ScanRow_comment_in_string(syn, render, hl, i, prev_sep, in_string, in_comment) ==
  IF i >= Len(render) THEN [hl |-> hl, in_comment |-> in_comment]
  ELSE
    LET c == render[i + 1]
        prev_hl == IF i > 0 THEN hl[i] ELSE HL_NORMAL
        scs == syn.singleline_comment_start
        mcs == syn.multiline_comment_start
        mce == syn.multiline_comment_end
        ml == Len(mcs) > 0 /\ Len(mce) > 0
        kw == KeywordAt(syn, render, i)
    IN
    IF Len(scs) > 0 /\ in_string = NUL /\ ~in_comment /\ StartsWith(render, i, scs)
    THEN [hl |-> Memset(hl, i, HL_COMMENT, Len(render) - i), in_comment |-> in_comment]
    ELSE IF ml /\ in_comment
    THEN IF StartsWith(render, i, mce)
         THEN ScanRow_comment_in_string(syn, render, Memset(hl, i, HL_MLCOMMENT, Len(mce)), i + Len(mce), TRUE, in_string, FALSE)
         ELSE ScanRow_comment_in_string(syn, render, Memset(hl, i, HL_MLCOMMENT, 1), i + 1, prev_sep, in_string, in_comment)
    ELSE IF ml /\ StartsWith(render, i, mcs)
    THEN ScanRow_comment_in_string(syn, render, Memset(hl, i, HL_MLCOMMENT, Len(mcs)), i + Len(mcs), prev_sep, in_string, TRUE)
    ELSE IF HL_SYN_STRINGS \in syn.flags /\ in_string # NUL
    THEN IF c = "\\" /\ i + 1 < Len(render)
         THEN ScanRow_comment_in_string(syn, render, Memset(hl, i, HL_STRING, 2), i + 2, prev_sep, in_string, in_comment)
         ELSE ScanRow_comment_in_string(syn, render, Memset(hl, i, HL_STRING, 1), i + 1, TRUE,
                      IF c = in_string THEN NUL ELSE in_string, in_comment)
    ELSE IF HL_SYN_STRINGS \in syn.flags /\ c \in {"\"", "'"}
    THEN ScanRow_comment_in_string(syn, render, Memset(hl, i, HL_STRING, 1), i + 1, prev_sep, c, in_comment)
    ELSE IF /\ HL_SYN_NUMBERS \in syn.flags
            /\ \/ isdigit(c) /\ (prev_sep \/ prev_hl = HL_NUMBER)
               \/ c = "." /\ prev_hl = HL_NUMBER
    THEN ScanRow_comment_in_string(syn, render, Memset(hl, i, HL_NUMBER, 1), i + 1, FALSE, in_string, in_comment)
    ELSE IF prev_sep /\ kw # 0
    THEN ScanRow_comment_in_string(syn, render,
                 Memset(hl, i, IF syn.keywords[kw][Len(syn.keywords[kw])] = "|" THEN HL_KEYWORD2 ELSE HL_KEYWORD1,
                        KeywordLen(syn.keywords[kw])),
                 i + KeywordLen(syn.keywords[kw]), FALSE, in_string, in_comment)
    ELSE ScanRow_comment_in_string(syn, render, hl, i + 1, is_separator(c), in_string, in_comment)

\* The passes of the while loop of editor_update_syntax that ScanRow makes:
\* the position and the scan state at the head of each pass, and at the
\* exit of the loop as the last element.
RECURSIVE ScanStates(_, _, _, _, _, _, _)
ScanStates(syn, render, hl, i, prev_sep, in_string, in_comment) ==
  LET here == <<[i |-> i, in_string |-> in_string, in_comment |-> in_comment]>>
  IN
  IF i >= Len(render) THEN here
  ELSE
    LET c == render[i + 1]
        prev_hl == IF i > 0 THEN hl[i] ELSE HL_NORMAL
        scs == syn.singleline_comment_start
        mcs == syn.multiline_comment_start
        mce == syn.multiline_comment_end
        ml == Len(mcs) > 0 /\ Len(mce) > 0 /\ in_string = NUL
        kw == KeywordAt(syn, render, i)
    IN
    IF Len(scs) > 0 /\ in_string = NUL /\ ~in_comment /\ StartsWith(render, i, scs)
    THEN here \o <<[i |-> Len(render), in_string |-> in_string, in_comment |-> in_comment]>>
    ELSE here \o
    (IF ml /\ in_comment
    THEN IF StartsWith(render, i, mce)
         THEN ScanStates(syn, render, Memset(hl, i, HL_MLCOMMENT, Len(mce)), i + Len(mce), TRUE, in_string, FALSE)
         ELSE ScanStates(syn, render, Memset(hl, i, HL_MLCOMMENT, 1), i + 1, prev_sep, in_string, in_comment)
    ELSE IF ml /\ StartsWith(render, i, mcs)
    THEN ScanStates(syn, render, Memset(hl, i, HL_MLCOMMENT, Len(mcs)), i + Len(mcs), prev_sep, in_string, TRUE)
    ELSE IF HL_SYN_STRINGS \in syn.flags /\ in_string # NUL
    THEN IF c = "\\" /\ i + 1 < Len(render)
         THEN ScanStates(syn, render, Memset(hl, i, HL_STRING, 2), i + 2, prev_sep, in_string, in_comment)
         ELSE ScanStates(syn, render, Memset(hl, i, HL_STRING, 1), i + 1, TRUE,
                         IF c = in_string THEN NUL ELSE in_string, in_comment)
    ELSE IF HL_SYN_STRINGS \in syn.flags /\ c \in {"\"", "'"}
    THEN ScanStates(syn, render, Memset(hl, i, HL_STRING, 1), i + 1, prev_sep, c, in_comment)
    ELSE IF /\ HL_SYN_NUMBERS \in syn.flags
            /\ \/ isdigit(c) /\ (prev_sep \/ prev_hl = HL_NUMBER)
               \/ c = "." /\ prev_hl = HL_NUMBER
    THEN ScanStates(syn, render, Memset(hl, i, HL_NUMBER, 1), i + 1, FALSE, in_string, in_comment)
    ELSE IF prev_sep /\ kw # 0
    THEN ScanStates(syn, render,
                    Memset(hl, i, IF syn.keywords[kw][Len(syn.keywords[kw])] = "|" THEN HL_KEYWORD2 ELSE HL_KEYWORD1,
                           KeywordLen(syn.keywords[kw])),
                    i + KeywordLen(syn.keywords[kw]), FALSE, in_string, in_comment)
    ELSE ScanStates(syn, render, hl, i + 1, is_separator(c), in_string, in_comment))

\* The while loop of editor_update_syntax from position i on: the highlight
\* array and the comment state at the end of the row.
RECURSIVE ScanRow(_, _, _, _, _, _, _)
ScanRow(syn, render, hl, i, prev_sep, in_string, in_comment) ==
  IF i >= Len(render) THEN [hl |-> hl, in_comment |-> in_comment]
  ELSE
    LET c == render[i + 1]
        prev_hl == IF i > 0 THEN hl[i] ELSE HL_NORMAL
        scs == syn.singleline_comment_start
        mcs == syn.multiline_comment_start
        mce == syn.multiline_comment_end
        ml == Len(mcs) > 0 /\ Len(mce) > 0 /\ in_string = NUL
        kw == KeywordAt(syn, render, i)
    IN
    IF Len(scs) > 0 /\ in_string = NUL /\ ~in_comment /\ StartsWith(render, i, scs)
    THEN [hl |-> Memset(hl, i, HL_COMMENT, Len(render) - i), in_comment |-> in_comment]
    ELSE IF ml /\ in_comment
    THEN IF StartsWith(render, i, mce)
         THEN ScanRow(syn, render, Memset(hl, i, HL_MLCOMMENT, Len(mce)), i + Len(mce), TRUE, in_string, FALSE)
         ELSE ScanRow(syn, render, Memset(hl, i, HL_MLCOMMENT, 1), i + 1, prev_sep, in_string, in_comment)
    ELSE IF ml /\ StartsWith(render, i, mcs)
    THEN ScanRow(syn, render, Memset(hl, i, HL_MLCOMMENT, Len(mcs)), i + Len(mcs), prev_sep, in_string, TRUE)
    ELSE IF HL_SYN_STRINGS \in syn.flags /\ in_string # NUL
    THEN IF c = "\\" /\ i + 1 < Len(render)
         THEN ScanRow(syn, render, Memset(hl, i, HL_STRING, 2), i + 2, prev_sep, in_string, in_comment)
         ELSE ScanRow(syn, render, Memset(hl, i, HL_STRING, 1), i + 1, TRUE,
                      IF c = in_string THEN NUL ELSE in_string, in_comment)
    ELSE IF HL_SYN_STRINGS \in syn.flags /\ c \in {"\"", "'"}
    THEN ScanRow(syn, render, Memset(hl, i, HL_STRING, 1), i + 1, prev_sep, c, in_comment)
    ELSE IF /\ HL_SYN_NUMBERS \in syn.flags
            /\ \/ isdigit(c) /\ (prev_sep \/ prev_hl = HL_NUMBER)
               \/ c = "." /\ prev_hl = HL_NUMBER
    THEN ScanRow(syn, render, Memset(hl, i, HL_NUMBER, 1), i + 1, FALSE, in_string, in_comment)
    ELSE IF prev_sep /\ kw # 0
    THEN ScanRow(syn, render,
                 Memset(hl, i, IF syn.keywords[kw][Len(syn.keywords[kw])] = "|" THEN HL_KEYWORD2 ELSE HL_KEYWORD1,
                        KeywordLen(syn.keywords[kw])),
                 i + KeywordLen(syn.keywords[kw]), FALSE, in_string, in_comment)
    ELSE ScanRow(syn, render, hl, i + 1, is_separator(c), in_string, in_comment)

\* One row's highlight array and trailing state under syntax entry syn,
\* scanned from the incoming comment state: the body of editor_update_syntax
\* between the memset and the cascade.
Classify(syn, render, in_comment) ==
  ScanRow(HLDB[syn], render, [k \in 1..Len(render) |-> HL_NORMAL], 0, TRUE, NUL, in_comment)

\* Mutant of editor_update_syntax: the following row is never classified
\* again.
editor_update_syntax_no_cascade(e, p) ==
  LET r == e.row[p + 1]
      blank == [k \in 1..Len(r.render) |-> HL_NORMAL]
  IN
  IF e.syntax = 0 THEN [e EXCEPT !.row[p + 1].hl = blank]
  ELSE
    LET in_comment == r.idx > 0 /\ e.row[r.idx].hl_open_comment
        res == Classify(e.syntax, r.render, in_comment)
    IN [e EXCEPT !.row[p + 1].hl = res.hl,
                 !.row[p + 1].hl_open_comment = res.in_comment]

\* Mutant of editor_update_syntax: the cascade goes on whether or not the
\* trailing state changed.
RECURSIVE editor_update_syntax_always(_, _)
editor_update_syntax_always(e, p) ==
  LET r == e.row[p + 1]
      blank == [k \in 1..Len(r.render) |-> HL_NORMAL]
  IN
  IF e.syntax = 0 THEN [e EXCEPT !.row[p + 1].hl = blank]
  ELSE
    LET in_comment == r.idx > 0 /\ e.row[r.idx].hl_open_comment
        res == Classify(e.syntax, r.render, in_comment)
        e2 == [e EXCEPT !.row[p + 1].hl = res.hl,
                        !.row[p + 1].hl_open_comment = res.in_comment]
    IN IF r.idx + 1 < e.num_rows
       THEN editor_update_syntax_always(e2, r.idx + 1)
       ELSE e2

\* Mutant of editor_update_syntax: no return when ec.syntax is NULL; the
\* row is classified under the first entry of HLDB.
RECURSIVE editor_update_syntax_no_return(_, _)
editor_update_syntax_no_return(e, p) ==
  LET r == e.row[p + 1]
      syn == IF e.syntax = 0 THEN 1 ELSE e.syntax
      in_comment == r.idx > 0 /\ e.row[r.idx].hl_open_comment
      res == Classify(syn, r.render, in_comment)
      changed == r.hl_open_comment # res.in_comment
      e2 == [e EXCEPT !.row[p + 1].hl = res.hl,
                      !.row[p + 1].hl_open_comment = res.in_comment]
  IN IF changed /\ r.idx + 1 < e.num_rows
     THEN editor_update_syntax_no_return(e2, r.idx + 1)
     ELSE e2

\* Mutant of editor_update_syntax: hl_open_comment is set to `changed`
\* where the code sets it to in_comment.
RECURSIVE editor_update_syntax_stores_changed(_, _)
editor_update_syntax_stores_changed(e, p) ==
  LET r == e.row[p + 1]
      blank == [k \in 1..Len(r.render) |-> HL_NORMAL]
  IN
  IF e.syntax = 0 THEN [e EXCEPT !.row[p + 1].hl = blank]
  ELSE
    LET in_comment == r.idx > 0 /\ e.row[r.idx].hl_open_comment
        res == Classify(e.syntax, r.render, in_comment)
        changed == r.hl_open_comment # res.in_comment
        e2 == [e EXCEPT !.row[p + 1].hl = res.hl,
                        !.row[p + 1].hl_open_comment = changed]
    IN IF changed /\ r.idx + 1 < e.num_rows
       THEN editor_update_syntax_stores_changed(e2, r.idx + 1)
       ELSE e2

\* The rows editor_update_syntax(&ec.row[p]) is entered for, in the order
\* of the calls: the same recursion, keeping the row of each call.
RECURSIVE CascadeRows(_, _)
CascadeRows(e, p) ==
  LET r == e.row[p + 1]
  IN
  IF e.syntax = 0 THEN <<p>>
  ELSE
    LET in_comment == r.idx > 0 /\ e.row[r.idx].hl_open_comment
        res == Classify(e.syntax, r.render, in_comment)
        changed == r.hl_open_comment # res.in_comment
        e2 == [e EXCEPT !.row[p + 1].hl = res.hl,
                        !.row[p + 1].hl_open_comment = res.in_comment]
    IN IF changed /\ r.idx + 1 < e.num_rows
       THEN <<p>> \o CascadeRows(e2, r.idx + 1)
       ELSE <<p>>

\* editor_update_syntax(&ec.row[p]) on editor state e: the rows after the
\* call, the cascade to the following rows included.
RECURSIVE editor_update_syntax(_, _)
editor_update_syntax(e, p) ==
  LET r == e.row[p + 1]
      blank == [k \in 1..Len(r.render) |-> HL_NORMAL]
  IN
  IF e.syntax = 0 THEN [e EXCEPT !.row[p + 1].hl = blank]
  ELSE
    LET in_comment == r.idx > 0 /\ e.row[r.idx].hl_open_comment
        res == Classify(e.syntax, r.render, in_comment)
        changed == r.hl_open_comment # res.in_comment
        e2 == [e EXCEPT !.row[p + 1].hl = res.hl,
                        !.row[p + 1].hl_open_comment = res.in_comment]
    IN IF changed /\ r.idx + 1 < e.num_rows
       THEN editor_update_syntax(e2, r.idx + 1)
       ELSE e2

\* ------------------------------------------------------------------------
\* Row operations
\* ------------------------------------------------------------------------
\* The for loop of editor_row_cx2rx from raw index j at render column rx.
RECURSIVE Cx2RxFrom(_, _, _, _)
Cx2RxFrom(c, cx, j, rx) ==
  IF j >= cx THEN rx
  ELSE Cx2RxFrom(c, cx, j + 1,
                 (IF CharAt(c, j) = TAB THEN rx + (TAB_STOP - 1) - (rx % TAB_STOP) ELSE rx) + 1)

editor_row_cx2rx(r, cx) == Cx2RxFrom(r.c, cx, 0, 0)

\* Mutant of Rx2CxFrom: the test is cur_rx >= rx where the code has >.
RECURSIVE Rx2CxFrom_ge(_, _, _, _)
Rx2CxFrom_ge(c, rx, cx, cur_rx) ==
  IF cx >= Len(c) THEN cx
  ELSE LET nxt == (IF c[cx + 1] = TAB THEN cur_rx + (TAB_STOP - 1) - (cur_rx % TAB_STOP) ELSE cur_rx) + 1
       IN IF nxt >= rx THEN cx ELSE Rx2CxFrom_ge(c, rx, cx + 1, nxt)

\* The for loop of editor_row_rx2cx from raw index cx at render column cur_rx.
RECURSIVE Rx2CxFrom(_, _, _, _)
Rx2CxFrom(c, rx, cx, cur_rx) ==
  IF cx >= Len(c) THEN cx
  ELSE LET nxt == (IF c[cx + 1] = TAB THEN cur_rx + (TAB_STOP - 1) - (cur_rx % TAB_STOP) ELSE cur_rx) + 1
       IN IF nxt > rx THEN cx ELSE Rx2CxFrom(c, rx, cx + 1, nxt)

editor_row_rx2cx(r, rx) == Rx2CxFrom(r.c, rx, 0, 0)

\* Mutant of RenderFrom: a tab is padded to the next multiple of TAB_STOP
\* only when it does not already stand on one (no first space).
RECURSIVE RenderFrom_no_first_space(_, _, _)
RenderFrom_no_first_space(c, j, out) ==
  IF j >= Len(c) THEN out
  ELSE IF c[j + 1] = TAB
       THEN LET pad == (TAB_STOP - (Len(out) % TAB_STOP)) % TAB_STOP
            IN RenderFrom_no_first_space(c, j + 1, out \o [k \in 1..pad |-> " "])
       ELSE RenderFrom_no_first_space(c, j + 1, Append(out, c[j + 1]))

\* The second for loop of editor_update_row: the render text of raw text c,
\* built from raw index j on with out already written.
RECURSIVE RenderFrom(_, _, _)
RenderFrom(c, j, out) ==
  IF j >= Len(c) THEN out
  ELSE IF c[j + 1] = TAB
       THEN LET pad == TAB_STOP - (Len(out) % TAB_STOP)
            IN RenderFrom(c, j + 1, out \o [k \in 1..pad |-> " "])
       ELSE RenderFrom(c, j + 1, Append(out, c[j + 1]))

\* Mutant of editor_update_row: the render text is rebuilt and the call of
\* editor_update_syntax is forgotten.
editor_update_row_no_syntax(e, p) ==
  [e EXCEPT !.row[p + 1].render = RenderFrom(e.row[p + 1].c, 0, <<>>)]

editor_update_row(e, p) ==
  editor_update_syntax([e EXCEPT !.row[p + 1].render = RenderFrom(e.row[p + 1].c, 0, <<>>)], p)

\* Mutant of editor_insert_row: an index behind the end appends the row.
editor_insert_row_clamps(e, at, s) ==
  IF at < 0 THEN e
  ELSE
    LET a == IF at > e.num_rows THEN e.num_rows ELSE at
        fresh == [idx |-> a, c |-> s, render |-> <<>>, hl |-> <<>>, hl_open_comment |-> FALSE]
        moved == [j \in 1..e.num_rows + 1 |->
                    IF j <= a THEN e.row[j]
                    ELSE IF j = a + 1 THEN fresh
                    ELSE [e.row[j - 1] EXCEPT !.idx = @ + 1]]
        u == editor_update_row([e EXCEPT !.row = moved], a)
    IN [u EXCEPT !.num_rows = @ + 1, !.dirty = @ + 1]

editor_insert_row(e, at, s) ==
  IF at < 0 \/ at > e.num_rows THEN e
  ELSE
    LET fresh == [idx |-> at, c |-> s, render |-> <<>>, hl |-> <<>>, hl_open_comment |-> FALSE]
        moved == [j \in 1..e.num_rows + 1 |->
                    IF j <= at THEN e.row[j]
                    ELSE IF j = at + 1 THEN fresh
                    ELSE [e.row[j - 1] EXCEPT !.idx = @ + 1]]
        u == editor_update_row([e EXCEPT !.row = moved], at)
    IN [u EXCEPT !.num_rows = @ + 1, !.dirty = @ + 1]

\* Mutant of editor_del_row: the rows behind the deleted one keep their idx.
editor_del_row_no_shift(e, at) ==
  IF at < 0 \/ at >= e.num_rows THEN e
  ELSE
    LET moved == [j \in 1..e.num_rows - 1 |-> IF j <= at THEN e.row[j] ELSE e.row[j + 1]]
    IN [e EXCEPT !.row = moved, !.num_rows = @ - 1, !.dirty = @ + 1]

editor_del_row(e, at) ==
  IF at < 0 \/ at >= e.num_rows THEN e
  ELSE
    LET moved == [j \in 1..e.num_rows - 1 |->
                    IF j <= at THEN e.row[j]
                    ELSE [e.row[j + 1] EXCEPT !.idx = @ - 1]]
    IN [e EXCEPT !.row = moved, !.num_rows = @ - 1, !.dirty = @ + 1]

\* Mutant of editor_row_insert_char: an index behind the end is taken as
\* the end, a negative one as it is counted from the end.
editor_row_insert_char_from_end(e, p, at0, ch) ==
  LET c == e.row[p + 1].c
      at == IF at0 > Len(c) THEN Len(c)
            ELSE IF at0 < 0 THEN (IF Len(c) + at0 < 0 THEN 0 ELSE Len(c) + at0)
            ELSE at0
      c2 == SubSeq(c, 1, at) \o <<ch>> \o SubSeq(c, at + 1, Len(c))
      u == editor_update_row([e EXCEPT !.row[p + 1].c = c2], p)
  IN [u EXCEPT !.dirty = @ + 1]

editor_row_insert_char(e, p, at0, ch) ==
  LET c == e.row[p + 1].c
      at == IF at0 < 0 \/ at0 > Len(c) THEN Len(c) ELSE at0
      c2 == SubSeq(c, 1, at) \o <<ch>> \o SubSeq(c, at + 1, Len(c))
      u == editor_update_row([e EXCEPT !.row[p + 1].c = c2], p)
  IN [u EXCEPT !.dirty = @ + 1]

\* Mutant of editor_row_append_str: the last character of s is not copied.
editor_row_append_str_short(e, p, s) ==
  LET u == editor_update_row([e EXCEPT !.row[p + 1].c = @ \o SubSeq(s, 1, Len(s) - 1)], p)
  IN [u EXCEPT !.dirty = @ + 1]

editor_row_append_str(e, p, s) ==
  LET u == editor_update_row([e EXCEPT !.row[p + 1].c = @ \o s], p)
  IN [u EXCEPT !.dirty = @ + 1]

\* Mutant of editor_row_del_char: ec.dirty++ is forgotten.
editor_row_del_char_no_dirty(e, p, at) ==
  LET c == e.row[p + 1].c
  IN IF at < 0 \/ at >= Len(c) THEN e
     ELSE editor_update_row([e EXCEPT !.row[p + 1].c = SubSeq(c, 1, at) \o SubSeq(c, at + 2, Len(c))], p)

editor_row_del_char(e, p, at) ==
  LET c == e.row[p + 1].c
  IN IF at < 0 \/ at >= Len(c) THEN e
     ELSE LET c2 == SubSeq(c, 1, at) \o SubSeq(c, at + 2, Len(c))
              u == editor_update_row([e EXCEPT !.row[p + 1].c = c2], p)
          IN [u EXCEPT !.dirty = @ + 1]

\* ------------------------------------------------------------------------
\* Editor operations
\* ------------------------------------------------------------------------
editor_insert_char(e, ch) ==
  LET e1 == IF e.cursor_y = e.num_rows THEN editor_insert_row(e, e.num_rows, <<>>) ELSE e
      e2 == editor_row_insert_char(e1, e1.cursor_y, e1.cursor_x, ch)
  IN [e2 EXCEPT !.cursor_x = @ + 1]

editor_insert_newline(e) ==
  LET e2 ==
        IF e.cursor_x = 0 THEN editor_insert_row(e, e.cursor_y, <<>>)
        ELSE LET c == e.row[e.cursor_y + 1].c
                 e1 == editor_insert_row(e, e.cursor_y + 1, SubSeq(c, e.cursor_x + 1, Len(c)))
             IN editor_update_row([e1 EXCEPT !.row[e.cursor_y + 1].c = SubSeq(c, 1, e.cursor_x)],
                                  e.cursor_y)
  IN [e2 EXCEPT !.cursor_y = @ + 1, !.cursor_x = 0]

editor_del_char(e) ==
  IF e.cursor_y = e.num_rows THEN e
  ELSE IF e.cursor_x = 0 /\ e.cursor_y = 0 THEN e
  ELSE IF e.cursor_x > 0
  THEN [editor_row_del_char(e, e.cursor_y, e.cursor_x - 1) EXCEPT !.cursor_x = @ - 1]
  ELSE LET e1 == [e EXCEPT !.cursor_x = Len(e.row[e.cursor_y].c)]
           e2 == editor_row_append_str(e1, e.cursor_y - 1, e.row[e.cursor_y + 1].c)
           e3 == editor_del_row(e2, e.cursor_y)
       IN [e3 EXCEPT !.cursor_y = @ - 1]

\* ------------------------------------------------------------------------
\* File I/O
\* ------------------------------------------------------------------------
\* Whether syntax entry s matches the file name (the while loop over
\* s->filematch).
SyntaxMatches(filename, s) ==
  \E i \in 1..Len(s.filematch) :
    LET fm == s.filematch[i]
        ext == Strrchr(filename, ".")
    IN \/ fm[1] = "." /\ ext # -1 /\ SubSeq(filename, ext + 1, Len(filename)) = fm
       \/ fm[1] # "." /\ Strstr(filename, fm) # -1

\* The for loop over filerow in editor_select_syntax_highlight.
RECURSIVE UpdateAllFrom(_, _)
UpdateAllFrom(e, filerow) ==
  IF filerow >= e.num_rows THEN e
  ELSE UpdateAllFrom(editor_update_syntax(e, filerow), filerow + 1)

\* Mutant of editor_select_syntax_highlight: the definition is set and the
\* rows are left as they were classified.
editor_select_syntax_highlight_no_rows(e) ==
  LET hits == {j \in 1..HLDB_ENTRIES : SyntaxMatches(e.filename, HLDB[j])}
  IN IF e.filename = NULL \/ hits = {} THEN [e EXCEPT !.syntax = 0]
     ELSE [e EXCEPT !.syntax = CHOOSE j \in hits : \A k \in hits : j <= k]

editor_select_syntax_highlight(e) ==
  LET hits == {j \in 1..HLDB_ENTRIES : SyntaxMatches(e.filename, HLDB[j])}
  IN IF e.filename = NULL \/ hits = {} THEN [e EXCEPT !.syntax = 0]
     ELSE UpdateAllFrom([e EXCEPT !.syntax = CHOOSE j \in hits : \A k \in hits : j <= k], 0)

\* The getline loop of editor_open: one row appended per line.
RECURSIVE InsertLines(_, _, _)
InsertLines(e, lines, k) ==
  IF k > Len(lines) THEN e
  ELSE InsertLines(editor_insert_row(e, e.num_rows, lines[k]), lines, k + 1)

editor_init ==
  [cursor_x |-> 0, cursor_y |-> 0, render_x |-> 0, num_rows |-> 0,
   row_off |-> 0, clo_off |-> 0, dirty |-> 0, row |-> <<>>,
   filename |-> NULL, syntax |-> 0]

editor_open(e, filename, lines) ==
  LET e1 == editor_select_syntax_highlight([e EXCEPT !.filename = filename])
  IN [InsertLines(e1, lines, 1) EXCEPT !.dirty = 0]

\* ------------------------------------------------------------------------
\* Screen output and cursor movement
\* ------------------------------------------------------------------------
\* Mutant of editor_scroll: the column offset is set one column short when
\* the cursor stands right of the window.
editor_scroll_short(e) ==
  LET rx == IF e.cursor_y < e.num_rows
            THEN editor_row_cx2rx(e.row[e.cursor_y + 1], e.cursor_x) ELSE 0
      ro1 == IF e.cursor_y < e.row_off THEN e.cursor_y ELSE e.row_off
      ro2 == IF e.cursor_y >= ro1 + ScreenRows THEN e.cursor_y - ScreenRows + 1 ELSE ro1
      co1 == IF rx < e.clo_off THEN rx ELSE e.clo_off
      co2 == IF rx >= co1 + ScreenCols THEN rx - ScreenCols ELSE co1
  IN [e EXCEPT !.render_x = rx, !.row_off = ro2, !.clo_off = co2]

\* Mutant of editor_scroll: a cursor below the window becomes its first row.
editor_scroll_to_top(e) ==
  LET rx == IF e.cursor_y < e.num_rows
            THEN editor_row_cx2rx(e.row[e.cursor_y + 1], e.cursor_x) ELSE 0
      ro1 == IF e.cursor_y < e.row_off THEN e.cursor_y ELSE e.row_off
      ro2 == IF e.cursor_y >= ro1 + ScreenRows THEN e.cursor_y ELSE ro1
      co1 == IF rx < e.clo_off THEN rx ELSE e.clo_off
      co2 == IF rx >= co1 + ScreenCols THEN rx - ScreenCols + 1 ELSE co1
  IN [e EXCEPT !.render_x = rx, !.row_off = ro2, !.clo_off = co2]

editor_scroll(e) ==
  LET rx == IF e.cursor_y < e.num_rows
            THEN editor_row_cx2rx(e.row[e.cursor_y + 1], e.cursor_x) ELSE 0
      ro1 == IF e.cursor_y < e.row_off THEN e.cursor_y ELSE e.row_off
      ro2 == IF e.cursor_y >= ro1 + ScreenRows THEN e.cursor_y - ScreenRows + 1 ELSE ro1
      co1 == IF rx < e.clo_off THEN rx ELSE e.clo_off
      co2 == IF rx >= co1 + ScreenCols THEN rx - ScreenCols + 1 ELSE co1
  IN [e EXCEPT !.render_x = rx, !.row_off = ro2, !.clo_off = co2]

\* strlen of the row under the cursor, 0 on the line past the end.
CursorRowLen(e) == IF e.cursor_y >= e.num_rows THEN 0 ELSE Len(e.row[e.cursor_y + 1].c)

\* Mutant of editor_move_cursor: the column is not cut to the new row.
editor_move_cursor_no_snap(e, key) ==
  LET has == e.cursor_y < e.num_rows
      m == CASE key = "ARROW_LEFT" ->
                  IF e.cursor_x # 0 THEN [e EXCEPT !.cursor_x = @ - 1]
                  ELSE IF e.cursor_y > 0
                  THEN [e EXCEPT !.cursor_y = @ - 1, !.cursor_x = Len(e.row[e.cursor_y].c)]
                  ELSE e
             [] key = "ARROW_RIGHT" ->
                  IF has /\ e.cursor_x < CursorRowLen(e) THEN [e EXCEPT !.cursor_x = @ + 1]
                  ELSE IF has /\ e.cursor_x = CursorRowLen(e)
                  THEN [e EXCEPT !.cursor_y = @ + 1, !.cursor_x = 0]
                  ELSE e
             [] key = "ARROW_UP" ->
                  IF e.cursor_y # 0 THEN [e EXCEPT !.cursor_y = @ - 1] ELSE e
             [] key = "ARROW_DOWN" ->
                  IF e.cursor_y < e.num_rows THEN [e EXCEPT !.cursor_y = @ + 1] ELSE e
             [] OTHER -> e
  IN m

editor_move_cursor(e, key) ==
  LET has == e.cursor_y < e.num_rows
      m == CASE key = "ARROW_LEFT" ->
                  IF e.cursor_x # 0 THEN [e EXCEPT !.cursor_x = @ - 1]
                  ELSE IF e.cursor_y > 0
                  THEN [e EXCEPT !.cursor_y = @ - 1, !.cursor_x = Len(e.row[e.cursor_y].c)]
                  ELSE e
             [] key = "ARROW_RIGHT" ->
                  IF has /\ e.cursor_x < CursorRowLen(e) THEN [e EXCEPT !.cursor_x = @ + 1]
                  ELSE IF has /\ e.cursor_x = CursorRowLen(e)
                  THEN [e EXCEPT !.cursor_y = @ + 1, !.cursor_x = 0]
                  ELSE e
             [] key = "ARROW_UP" ->
                  IF e.cursor_y # 0 THEN [e EXCEPT !.cursor_y = @ - 1] ELSE e
             [] key = "ARROW_DOWN" ->
                  IF e.cursor_y < e.num_rows THEN [e EXCEPT !.cursor_y = @ + 1] ELSE e
             [] OTHER -> e
  IN IF m.cursor_x > CursorRowLen(m) THEN [m EXCEPT !.cursor_x = CursorRowLen(m)] ELSE m

\* while(times--) editor_move_cursor(key)
RECURSIVE MoveTimes(_, _, _)
MoveTimes(e, key, times) ==
  IF times = 0 THEN e ELSE MoveTimes(editor_move_cursor(e, key), key, times - 1)

\* The PAGE_UP / PAGE_DOWN case of editor_proc_key.
PageMove(e, key) ==
  LET e1 == IF key = "PAGE_UP" THEN [e EXCEPT !.cursor_y = e.row_off]
            ELSE LET y == e.row_off + ScreenRows - 1
                 IN [e EXCEPT !.cursor_y = IF y > e.num_rows THEN e.num_rows ELSE y]
  IN MoveTimes(e1, IF key = "PAGE_UP" THEN "ARROW_UP" ELSE "ARROW_DOWN", ScreenRows)

\* ------------------------------------------------------------------------
\* State
\* ------------------------------------------------------------------------
VARIABLES
  ec,             \* the global editor_config_t
  pc,             \* where the control loop stands: "refresh", "key" or "exit"
  mode,           \* "edit": the loop of main; "find": the loop of editor_prompt under editor_find
  nkeys,          \* keys editor_proc_key has read so far
  quit_times,     \* static of editor_proc_key
  last_match,     \* statics of editor_find_callback
  direction,
  saved_hl_line,
  saved_hl,
  buf,            \* the prompt's input buffer
  saved,          \* editor_find's saved_cx, saved_cy, saved_col_off, saved_row_off
  probe,          \* the last call of a coordinate mapper: its cx and its rx
  prompt_c        \* editor_prompt's c: the key it read last

vars == <<ec, pc, mode, nkeys, quit_times, last_match, direction, saved_hl_line, saved_hl, buf, saved, probe, prompt_c>>

find_statics == <<last_match, direction, saved_hl_line, saved_hl>>

\* Characters the model types into the text and into the search prompt.
TypedChars == {"/", "*"}
QueryChars == {"/"}

\* The files the model opens: a name and the lines getline yields.
FileNames == {<<"a", ".", "c">>, <<"a">>}
OpenName == <<"a", ".", "c">>
FileLineSet == {<<"/", "*">>, <<"/">>, <<"\t">>}
FileLines == UNION {[1..n -> FileLineSet] : n \in 0..MaxRows}

\* main: editor_init, then editor_open when a file is named.
Init ==
  /\ ec \in {editor_init} \cup {editor_open(editor_init, OpenName, ls) : ls \in FileLines}
  /\ pc = "refresh"
  /\ mode = "edit"
  /\ nkeys = 0
  /\ quit_times = QUIT_TIMES
  /\ last_match = -1
  /\ direction = 1
  /\ saved_hl_line = 0
  /\ saved_hl = NULL
  /\ buf = <<>>
  /\ saved = [cx |-> 0, cy |-> 0, col_off |-> 0, row_off |-> 0]
  /\ probe = [op |-> "none", cx |-> 0, rx |-> 0]
  /\ prompt_c = NUL

\* ------------------------------------------------------------------------
\* The main loop: editor_refresh_screen, then editor_proc_key
\* ------------------------------------------------------------------------
Refresh ==
  /\ pc = "refresh"
  /\ ec' = editor_scroll(ec)
  /\ pc' = "key"
  /\ UNCHANGED <<mode, nkeys, quit_times, find_statics, buf, saved, probe, prompt_c>>

\* editor_proc_key reads a key.
AtKey == pc = "key" /\ mode = "edit" /\ nkeys < MaxKeys

\* The end of editor_proc_key for every key but Ctrl-Q and Ctrl-F.
KeyDone ==
  /\ nkeys' = nkeys + 1
  /\ quit_times' = QUIT_TIMES
  /\ pc' = "refresh"
  /\ UNCHANGED <<mode, find_statics, buf, saved, probe, prompt_c>>

KeyEnter ==
  /\ AtKey
  /\ ec' = editor_insert_newline(ec)
  /\ KeyDone

KeyChar ==
  /\ AtKey
  /\ \E ch \in TypedChars : ec' = editor_insert_char(ec, ch)
  /\ KeyDone

\* BACK_SPACE and Ctrl-H.
KeyBackspace ==
  /\ AtKey
  /\ ec' = editor_del_char(ec)
  /\ KeyDone

KeyDelete ==
  /\ AtKey
  /\ ec' = editor_del_char(editor_move_cursor(ec, "ARROW_RIGHT"))
  /\ KeyDone

KeyArrow ==
  /\ AtKey
  /\ \E key \in {"ARROW_UP", "ARROW_DOWN", "ARROW_LEFT", "ARROW_RIGHT"} :
       ec' = editor_move_cursor(ec, key)
  /\ KeyDone

KeyHome ==
  /\ AtKey
  /\ ec' = [ec EXCEPT !.cursor_x = 0]
  /\ KeyDone

KeyEnd ==
  /\ AtKey
  /\ ec' = IF ec.cursor_y < ec.num_rows THEN [ec EXCEPT !.cursor_x = CursorRowLen(ec)] ELSE ec
  /\ KeyDone

KeyPage ==
  /\ AtKey
  /\ \E key \in {"PAGE_UP", "PAGE_DOWN"} : ec' = PageMove(ec, key)
  /\ KeyDone

\* editor_save: name is what the "Save as" prompt returns when no file name
\* is known (NULL: the prompt was cancelled), io_ok whether open, ftruncate
\* and write all succeed.
editor_save(e, name, io_ok) ==
  IF e.filename = NULL /\ name = NULL THEN e
  ELSE LET e1 == IF e.filename = NULL
                 THEN editor_select_syntax_highlight([e EXCEPT !.filename = name])
                 ELSE e
       IN IF io_ok THEN [e1 EXCEPT !.dirty = 0] ELSE e1

KeySave ==
  /\ AtKey
  /\ \E name \in FileNames \cup {NULL}, io_ok \in BOOLEAN : ec' = editor_save(ec, name, io_ok)
  /\ KeyDone

\* Mutant of KeyQuit: the second Ctrl-Q on unsaved changes leaves.
KeyQuit_second_exits ==
  /\ AtKey
  /\ IF ec.dirty # 0 /\ quit_times > 1
     THEN quit_times' = quit_times - 1 /\ pc' = "refresh"
     ELSE quit_times' = quit_times /\ pc' = "exit"
  /\ nkeys' = nkeys + 1
  /\ UNCHANGED <<ec, mode, find_statics, buf, saved, probe, prompt_c>>

\* Ctrl-Q
KeyQuit ==
  /\ AtKey
  /\ IF ec.dirty # 0 /\ quit_times > 0
     THEN quit_times' = quit_times - 1 /\ pc' = "refresh"
     ELSE quit_times' = quit_times /\ pc' = "exit"
  /\ nkeys' = nkeys + 1
  /\ UNCHANGED <<ec, mode, find_statics, buf, saved, probe, prompt_c>>

\* Ctrl-L and ESC
KeyNoop ==
  /\ AtKey
  /\ ec' = ec
  /\ KeyDone

NextEdit ==
  \/ Refresh
  \/ KeyEnter
  \/ KeyChar
  \/ KeyBackspace
  \/ KeyDelete
  \/ KeyArrow
  \/ KeyHome
  \/ KeyEnd
  \/ KeyPage
  \/ KeySave
  \/ KeyNoop

\* The editor under editing, navigation and saving keys.
SpecEdit == Init /\ [][NextEdit]_vars

\* ------------------------------------------------------------------------
\* The coordinate mappers on their own
\* ------------------------------------------------------------------------
\* Every row of letters and at most MaxMapTabs tabs, up to MaxMapLen
\* characters.
MapRows ==
  UNION {{r \in [1..n -> {"a", TAB}] : Cardinality({k \in 1..n : r[k] = TAB}) <= MaxMapTabs} :
         n \in 0..MaxMapLen}

\* A one-row document, loaded so that editor_update_row has derived the
\* row's render.
InitMap ==
  /\ ec \in {editor_open(editor_init, OpenName, <<r>>) : r \in MapRows}
  /\ pc = "refresh"
  /\ mode = "edit"
  /\ nkeys = 0
  /\ quit_times = QUIT_TIMES
  /\ last_match = -1
  /\ direction = 1
  /\ saved_hl_line = 0
  /\ saved_hl = NULL
  /\ buf = <<>>
  /\ saved = [cx |-> 0, cy |-> 0, col_off |-> 0, row_off |-> 0]
  /\ probe = [op |-> "none", cx |-> 0, rx |-> 0]
  /\ prompt_c = NUL

\* editor_row_cx2rx(&ec.row[0], cx) for a column of the row.
ProbeCx2Rx ==
  /\ \E cx \in 0..Len(ec.row[1].c) :
       probe' = [op |-> "cx2rx", cx |-> cx, rx |-> editor_row_cx2rx(ec.row[1], cx)]
  /\ UNCHANGED <<ec, pc, mode, nkeys, quit_times, find_statics, buf, saved, prompt_c>>

\* editor_row_rx2cx(&ec.row[0], rx) for a render column of the row or one
\* at or behind its end.
ProbeRx2Cx ==
  /\ \E rx \in 0..Len(ec.row[1].render) + TAB_STOP :
       probe' = [op |-> "rx2cx", rx |-> rx, cx |-> editor_row_rx2cx(ec.row[1], rx)]
  /\ UNCHANGED <<ec, pc, mode, nkeys, quit_times, find_statics, buf, saved, prompt_c>>

NextMap ==
  \/ ProbeCx2Rx
  \/ ProbeRx2Cx

SpecMap == InitMap /\ [][NextMap]_vars

\* ------------------------------------------------------------------------
\* Search: editor_find, editor_prompt and editor_find_callback
\* ------------------------------------------------------------------------
\* Mutant of FindRestore: the snapshot is discarded without being copied back.
FindRestore_skip(e, line, shl) == e

\* editor_find_callback, if(saved_hl): memcpy of the snapshot over the hl of
\* row saved_hl_line, for that row's rlen cells.
FindRestore(e, line, shl) ==
  IF shl = NULL THEN e
  ELSE LET row == e.row[line + 1]
       IN [e EXCEPT !.row[line + 1].hl =
             [k \in 1..Len(row.hl) |-> IF k <= Len(row.render) THEN shl[k] ELSE row.hl[k]]]

\* Mutant of FindDirection: a key that is no arrow leaves last_match.
FindDirection_keeps_match(k, lm, dir) ==
  LET s == IF k \in {"ARROW_RIGHT", "ARROW_DOWN"} THEN [last_match |-> lm, direction |-> 1]
           ELSE IF k \in {"ARROW_LEFT", "ARROW_UP"} THEN [last_match |-> lm, direction |-> -1]
           ELSE [last_match |-> lm, direction |-> 1]
  IN IF s.last_match = -1 THEN [s EXCEPT !.direction = 1] ELSE s

\* Mutant of FindDirection: ARROW_UP is taken for any other key.
FindDirection_up_resets(k, lm, dir) ==
  LET s == IF k \in {"ARROW_RIGHT", "ARROW_DOWN"} THEN [last_match |-> lm, direction |-> 1]
           ELSE IF k = "ARROW_LEFT" THEN [last_match |-> lm, direction |-> -1]
           ELSE [last_match |-> -1, direction |-> 1]
  IN IF s.last_match = -1 THEN [s EXCEPT !.direction = 1] ELSE s

\* editor_find_callback, for a key other than '\r' and ESC: what the key
\* makes of last_match and direction before the scan.
FindDirection(k, lm, dir) ==
  LET s == IF k \in {"ARROW_RIGHT", "ARROW_DOWN"} THEN [last_match |-> lm, direction |-> 1]
           ELSE IF k \in {"ARROW_LEFT", "ARROW_UP"} THEN [last_match |-> lm, direction |-> -1]
           ELSE [last_match |-> -1, direction |-> 1]
  IN IF s.last_match = -1 THEN [s EXCEPT !.direction = 1] ELSE s

\* Mutant of FindScan: stepping behind the last row stays on the last row.
RECURSIVE FindScan_no_wrap(_, _, _, _, _)
FindScan_no_wrap(e, query, current, dir, i) ==
  IF i >= e.num_rows THEN -1
  ELSE LET c1 == current + dir
           cur == IF c1 = -1 \/ c1 = e.num_rows THEN e.num_rows - 1 ELSE c1
       IN IF Strstr(e.row[cur + 1].render, query) # -1 THEN cur
          ELSE FindScan_no_wrap(e, query, cur, dir, i + 1)

\* The for loop of editor_find_callback from its iteration i: the row of
\* the first match, -1 when the loop ends without one.
RECURSIVE FindScan(_, _, _, _, _)
FindScan(e, query, current, dir, i) ==
  IF i >= e.num_rows THEN -1
  ELSE LET c1 == current + dir
           cur == IF c1 = -1 THEN e.num_rows - 1
                  ELSE IF c1 = e.num_rows THEN 0
                  ELSE c1
       IN IF Strstr(e.row[cur + 1].render, query) # -1 THEN cur
          ELSE FindScan(e, query, cur, dir, i + 1)

\* Mutant of editor_find_callback: ESC returns without resetting last_match
\* and direction.
editor_find_callback_esc_keeps(s, query, k, null0) ==
  LET e1 == FindRestore(s.ec, s.saved_hl_line, s.saved_hl)
      s1 == [s EXCEPT !.ec = e1, !.saved_hl = NULL]
  IN IF k = "ESC" THEN s1
     ELSE IF k = "\r" THEN [s1 EXCEPT !.last_match = -1, !.direction = 1]
     ELSE LET d == FindDirection(k, s.last_match, s.direction)
              hit == FindScan(e1, query, d.last_match, d.direction, 0)
          IN IF hit = -1
             THEN [s1 EXCEPT !.last_match = d.last_match, !.direction = d.direction]
             ELSE LET row == e1.row[hit + 1]
                      match == Strstr(row.render, query)
                  IN [ec |-> [e1 EXCEPT !.cursor_y = hit,
                                        !.cursor_x = editor_row_rx2cx(row, match),
                                        !.row[hit + 1].hl = Memset(row.hl, match, HL_MATCH, Len(query))],
                      last_match |-> hit,
                      direction |-> d.direction,
                      saved_hl_line |-> hit,
                      saved_hl |-> IF Len(row.render) = 0 /\ null0 THEN NULL ELSE row.hl]

\* Mutant of editor_find_callback: no snapshot of the matched row is kept.
editor_find_callback_no_snapshot(s, query, k, null0) ==
  LET e1 == FindRestore(s.ec, s.saved_hl_line, s.saved_hl)
      s1 == [s EXCEPT !.ec = e1, !.saved_hl = NULL]
  IN IF k \in {"\r", "ESC"}
     THEN [s1 EXCEPT !.last_match = -1, !.direction = 1]
     ELSE LET d == FindDirection(k, s.last_match, s.direction)
              hit == FindScan(e1, query, d.last_match, d.direction, 0)
          IN IF hit = -1
             THEN [s1 EXCEPT !.last_match = d.last_match, !.direction = d.direction]
             ELSE LET row == e1.row[hit + 1]
                      match == Strstr(row.render, query)
                  IN [ec |-> [e1 EXCEPT !.cursor_y = hit,
                                        !.cursor_x = editor_row_rx2cx(row, match),
                                        !.row[hit + 1].hl = Memset(row.hl, match, HL_MATCH, Len(query))],
                      last_match |-> hit,
                      direction |-> d.direction,
                      saved_hl_line |-> hit,
                      saved_hl |-> NULL]

\* editor_find_callback on s: the editor and the four statics.  null0 says
\* that malloc(0) returns NULL, which the C standard leaves to the library.
editor_find_callback(s, query, k, null0) ==
  LET e1 == FindRestore(s.ec, s.saved_hl_line, s.saved_hl)
      s1 == [s EXCEPT !.ec = e1, !.saved_hl = NULL]
  IN IF k \in {"\r", "ESC"}
     THEN [s1 EXCEPT !.last_match = -1, !.direction = 1]
     ELSE LET d == FindDirection(k, s.last_match, s.direction)
              hit == FindScan(e1, query, d.last_match, d.direction, 0)
          IN IF hit = -1
             THEN [s1 EXCEPT !.last_match = d.last_match, !.direction = d.direction]
             ELSE LET row == e1.row[hit + 1]
                      match == Strstr(row.render, query)
                  IN [ec |-> [e1 EXCEPT !.cursor_y = hit,
                                        !.cursor_x = editor_row_rx2cx(row, match),
                                        !.row[hit + 1].hl = Memset(row.hl, match, HL_MATCH, Len(query))],
                      last_match |-> hit,
                      direction |-> d.direction,
                      saved_hl_line |-> hit,
                      saved_hl |-> IF Len(row.render) = 0 /\ null0 THEN NULL ELSE row.hl]

\* Mutant of FindCancel: the row offset is not put back.
FindCancel_keep_row_off(e, sv) ==
  [e EXCEPT !.cursor_x = sv.cx, !.cursor_y = sv.cy, !.clo_off = sv.col_off]

\* editor_find, the else branch: the prompt returned NULL.
FindCancel(e, sv) ==
  [e EXCEPT !.cursor_x = sv.cx, !.cursor_y = sv.cy, !.clo_off = sv.col_off, !.row_off = sv.row_off]

\* The files the search model opens.
FindLineSet == {<<"/", "*">>, <<"\t", "/">>, <<>>}
FindLines == UNION {[1..n -> FindLineSet] : n \in 0..MaxRows}

InitFind ==
  /\ ec \in {editor_init} \cup {editor_open(editor_init, OpenName, ls) : ls \in FindLines}
  /\ pc = "refresh"
  /\ mode = "edit"
  /\ nkeys = 0
  /\ quit_times = QUIT_TIMES
  /\ last_match = -1
  /\ direction = 1
  /\ saved_hl_line = 0
  /\ saved_hl = NULL
  /\ buf = <<>>
  /\ saved = [cx |-> 0, cy |-> 0, col_off |-> 0, row_off |-> 0]
  /\ probe = [op |-> "none", cx |-> 0, rx |-> 0]
  /\ prompt_c = NUL

\* Ctrl-F: editor_find up to the first pass of editor_prompt's loop.
KeyFind ==
  /\ AtKey
  /\ nkeys < MaxFinds
  /\ saved' = [cx |-> ec.cursor_x, cy |-> ec.cursor_y, col_off |-> ec.clo_off, row_off |-> ec.row_off]
  /\ buf' = <<>>
  /\ prompt_c' = NUL
  /\ mode' = "find"
  /\ pc' = "refresh"
  /\ UNCHANGED <<ec, nkeys, quit_times, find_statics, probe>>

\* editor_prompt has read a key.
AtPrompt == pc = "key" /\ mode = "find"

\* The editor and the statics of editor_find_callback, as it finds them.
FindState ==
  [ec |-> ec, last_match |-> last_match, direction |-> direction,
   saved_hl_line |-> saved_hl_line, saved_hl |-> saved_hl]

\* callback(buf, c), then the next pass of the loop.
PromptCallback(query, k) ==
  /\ \E null0 \in BOOLEAN :
       \E s \in {editor_find_callback(FindState, query, k, null0)} :
          /\ ec' = s.ec
          /\ last_match' = s.last_match
          /\ direction' = s.direction
          /\ saved_hl_line' = s.saved_hl_line
          /\ saved_hl' = s.saved_hl
  /\ buf' = query
  /\ prompt_c' = k
  /\ pc' = "refresh"
  /\ UNCHANGED <<mode, nkeys, quit_times, saved, probe>>

\* callback(buf, c), then the return of editor_prompt, which frees buf or
\* hands it to editor_find to free, and of editor_find into
\* editor_proc_key; cancelled says that editor_prompt returns NULL.
PromptReturn(k, cancelled) ==
  /\ \E s \in {editor_find_callback(FindState, buf, k, FALSE)} :
        /\ ec' = IF cancelled THEN FindCancel(s.ec, saved) ELSE s.ec
        /\ last_match' = s.last_match
        /\ direction' = s.direction
        /\ saved_hl_line' = s.saved_hl_line
        /\ saved_hl' = s.saved_hl
  /\ buf' = <<>>
  /\ prompt_c' = k
  /\ mode' = "edit"
  /\ nkeys' = nkeys + 1
  /\ quit_times' = QUIT_TIMES
  /\ pc' = "refresh"
  /\ UNCHANGED <<saved, probe>>

\* DEL_KEY, Ctrl-H and BACK_SPACE
PromptErase ==
  /\ AtPrompt
  /\ \E k \in {"DEL_KEY", "BACK_SPACE"} :
       PromptCallback(IF Len(buf) # 0 THEN SubSeq(buf, 1, Len(buf) - 1) ELSE buf, k)

\* ESC
PromptCancel ==
  /\ AtPrompt
  /\ PromptReturn("ESC", TRUE)

\* '\r': the prompt returns the query unless it is empty.
PromptEnter ==
  /\ AtPrompt
  /\ IF Len(buf) # 0 THEN PromptReturn("\r", FALSE) ELSE PromptCallback(buf, "\r")

\* A printable character.
PromptChar ==
  /\ AtPrompt
  /\ Len(buf) < MaxQuery
  /\ \E ch \in QueryChars : PromptCallback(Append(buf, ch), ch)

\* An arrow key: the callback searches on in its direction.
PromptArrow ==
  /\ AtPrompt
  /\ \E k \in {"ARROW_UP", "ARROW_DOWN", "ARROW_LEFT", "ARROW_RIGHT"} : PromptCallback(buf, k)

\* Any other key: a control character or HOME, END, PAGE_UP, PAGE_DOWN.
PromptOther ==
  /\ AtPrompt
  /\ \E k \in {"\t", "HOME_KEY"} : PromptCallback(buf, k)

NextFind ==
  \/ Refresh
  \/ KeyFind
  \/ PromptErase
  \/ PromptCancel
  \/ PromptEnter
  \/ PromptChar
  \/ PromptArrow
  \/ PromptOther

\* The editor under search.
SpecFind == InitFind /\ [][NextFind]_vars

\* ------------------------------------------------------------------------
\* Editing, navigation, saving and search together
\* ------------------------------------------------------------------------
\* The files this model opens: rows wider than the screen next to empty
\* ones, and the empty file.
SessionFiles ==
  {<<>>,
   <<<<"/", "*">>, <<"\t", "/">>>>,
   <<<<"\t", "/">>, <<>>, <<"/", "*">>>>}

InitSession ==
  /\ ec \in {editor_init} \cup {editor_open(editor_init, OpenName, ls) : ls \in SessionFiles}
  /\ pc = "refresh"
  /\ mode = "edit"
  /\ nkeys = 0
  /\ quit_times = QUIT_TIMES
  /\ last_match = -1
  /\ direction = 1
  /\ saved_hl_line = 0
  /\ saved_hl = NULL
  /\ buf = <<>>
  /\ saved = [cx |-> 0, cy |-> 0, col_off |-> 0, row_off |-> 0]
  /\ probe = [op |-> "none", cx |-> 0, rx |-> 0]
  /\ prompt_c = NUL

NextSession ==
  \/ Refresh
  \/ KeyEnter
  \/ KeyChar
  \/ KeyBackspace
  \/ KeyDelete
  \/ KeyArrow
  \/ KeyHome
  \/ KeyEnd
  \/ KeyPage
  \/ KeySave
  \/ KeyNoop
  \/ KeyFind
  \/ PromptErase
  \/ PromptCancel
  \/ PromptEnter
  \/ PromptChar
  \/ PromptArrow
  \/ PromptOther

\* The editor under every key but Ctrl-Q.
SpecSession == InitSession /\ [][NextSession]_vars

\* ------------------------------------------------------------------------
\* The keyword classifier on rows of C tokens
\* ------------------------------------------------------------------------
KwTokens ==
  {<<"i", "n", "t">>, <<"e", "g", "e", "r">>, <<"i", "f">>, <<"x">>, <<" ">>, <<"(">>, <<"\"">>}

\* Every row of at most n tokens.
RECURSIVE KwRows(_)
KwRows(n) ==
  IF n = 0 THEN {<<>>}
  ELSE KwRows(n - 1) \cup {r \o t : r \in KwRows(n - 1), t \in KwTokens}

\* A C file of one such row.
InitKw ==
  /\ ec \in {editor_open(editor_init, OpenName, <<r>>) : r \in KwRows(MaxTokens)}
  /\ pc = "refresh"
  /\ mode = "edit"
  /\ nkeys = 0
  /\ quit_times = QUIT_TIMES
  /\ last_match = -1
  /\ direction = 1
  /\ saved_hl_line = 0
  /\ saved_hl = NULL
  /\ buf = <<>>
  /\ saved = [cx |-> 0, cy |-> 0, col_off |-> 0, row_off |-> 0]
  /\ probe = [op |-> "none", cx |-> 0, rx |-> 0]
  /\ prompt_c = NUL

NextKw ==
  \/ Refresh
  \/ KeyEnd
  \/ KeyBackspace

\* The row is classified at load and again as End and Backspace shorten
\* it from its end.
SpecKw == InitKw /\ [][NextKw]_vars

\* ------------------------------------------------------------------------
\* The classifier on rows of quotes and comment markers
\* ------------------------------------------------------------------------
StrTokens ==
  {<<"\"">>, <<"'">>, <<"/", "*">>, <<"*", "/">>, <<"x">>}

\* Every row of at most n tokens.
RECURSIVE StrRows(_)
StrRows(n) ==
  IF n = 0 THEN {<<>>}
  ELSE StrRows(n - 1) \cup {r \o t : r \in StrRows(n - 1), t \in StrTokens}

\* A C file of one such row.
InitStr ==
  /\ ec \in {editor_open(editor_init, OpenName, <<r>>) : r \in StrRows(MaxTokens)}
  /\ pc = "refresh"
  /\ mode = "edit"
  /\ nkeys = 0
  /\ quit_times = QUIT_TIMES
  /\ last_match = -1
  /\ direction = 1
  /\ saved_hl_line = 0
  /\ saved_hl = NULL
  /\ buf = <<>>
  /\ saved = [cx |-> 0, cy |-> 0, col_off |-> 0, row_off |-> 0]
  /\ probe = [op |-> "none", cx |-> 0, rx |-> 0]
  /\ prompt_c = NUL

\* The row is classified at load and again as End and Backspace shorten
\* it from its end.
SpecStr == InitStr /\ [][NextKw]_vars

\* ------------------------------------------------------------------------
\* The row operations called on their own, with indices in and out of range
\* ------------------------------------------------------------------------
\* A call: the operation, its index `at` (in cx) and its row (in rx).
CallDone(op, at, p) ==
  /\ probe' = [op |-> op, cx |-> at, rx |-> p]
  /\ nkeys' = nkeys + 1
  /\ UNCHANGED <<pc, mode, quit_times, find_statics, buf, saved, prompt_c>>

CallInsertRow ==
  /\ nkeys < MaxCalls
  /\ \E at \in -1..ec.num_rows + 1 : \E s \in {<<>>, <<"/", "*">>} :
       /\ ec' = editor_insert_row(ec, at, s)
       /\ CallDone("editor_insert_row", at, 0)

CallDelRow ==
  /\ nkeys < MaxCalls
  /\ \E at \in -1..ec.num_rows + 1 :
       /\ ec' = editor_del_row(ec, at)
       /\ CallDone("editor_del_row", at, 0)

CallRowInsertChar ==
  /\ nkeys < MaxCalls
  /\ \E p \in 0..ec.num_rows - 1 : \E at \in -2..Len(ec.row[p + 1].c) + 2 : \E ch \in TypedChars :
       /\ ec' = editor_row_insert_char(ec, p, at, ch)
       /\ CallDone("editor_row_insert_char", at, p)

CallRowDelChar ==
  /\ nkeys < MaxCalls
  /\ \E p \in 0..ec.num_rows - 1 : \E at \in -1..Len(ec.row[p + 1].c) + 1 :
       /\ ec' = editor_row_del_char(ec, p, at)
       /\ CallDone("editor_row_del_char", at, p)

NextRows ==
  \/ CallInsertRow
  \/ CallDelRow
  \/ CallRowInsertChar
  \/ CallRowDelChar

\* The document of a loaded file under calls of its row operations.
SpecRows == InitSession /\ [][NextRows]_vars

\* ------------------------------------------------------------------------
\* Documents typed into an editor started without a file, and saved
\* ------------------------------------------------------------------------
\* Key sequences typed before the model's run begins; "\r" is Enter.
TypedTexts ==
  {<<"/", "*", "ARROW_LEFT">>,
   <<"/", "*", "\r", "/">>,
   <<"/", "\r", "*">>,
   <<"*", "/", "\r", "/", "*", "\r", "*">>}

\* The main loop run over the keys ks from the k-th on: editor_scroll,
\* then the key's handler.
RECURSIVE Typed(_, _, _)
Typed(e, ks, k) ==
  IF k > Len(ks) THEN e
  ELSE LET s == editor_scroll(e)
       IN Typed(IF ks[k] = "\r" THEN editor_insert_newline(s)
                ELSE IF ks[k] = "ARROW_LEFT" THEN editor_move_cursor(s, ks[k])
                ELSE editor_insert_char(s, ks[k]), ks, k + 1)

\* main without a file name, after the typed keys; or main with a file.
InitSave ==
  /\ ec \in {Typed(editor_init, ks, 1) : ks \in TypedTexts}
            \cup {editor_open(editor_init, OpenName, ls) : ls \in SessionFiles}
  /\ pc = "refresh"
  /\ mode = "edit"
  /\ nkeys = 0
  /\ quit_times = QUIT_TIMES
  /\ last_match = -1
  /\ direction = 1
  /\ saved_hl_line = 0
  /\ saved_hl = NULL
  /\ buf = <<>>
  /\ saved = [cx |-> 0, cy |-> 0, col_off |-> 0, row_off |-> 0]
  /\ probe = [op |-> "none", cx |-> 0, rx |-> 0]
  /\ prompt_c = NUL

NextSave ==
  \/ Refresh
  \/ KeySave
  \/ KeyChar
  \/ KeyEnter
  \/ KeyBackspace

\* Typed and loaded documents under Ctrl-S and editing keys.
SpecSave == InitSave /\ [][NextSave]_vars

\* ------------------------------------------------------------------------
\* The character operations of a row called on their own
\* ------------------------------------------------------------------------
\* The texts appended to a row.
AppendTexts == {<<>>, <<"*", "/">>, <<"/", "*">>}

CharInsert ==
  /\ nkeys < MaxCalls
  /\ \E p \in 0..ec.num_rows - 1 : \E at \in 0..Len(ec.row[p + 1].c) : \E ch \in TypedChars :
       /\ ec' = editor_row_insert_char(ec, p, at, ch)
       /\ CallDone("editor_row_insert_char", at, p)

CharDelete ==
  /\ nkeys < MaxCalls
  /\ \E p \in 0..ec.num_rows - 1 : \E at \in 0..Len(ec.row[p + 1].c) - 1 :
       /\ ec' = editor_row_del_char(ec, p, at)
       /\ CallDone("editor_row_del_char", at, p)

TextAppend ==
  /\ nkeys < MaxCalls
  /\ \E p \in 0..ec.num_rows - 1 : \E s \in AppendTexts :
       /\ ec' = editor_row_append_str(ec, p, s)
       /\ CallDone("editor_row_append_str", Len(ec.row[p + 1].c), p)

NextChars ==
  \/ CharInsert
  \/ CharDelete
  \/ TextAppend

\* The document of a loaded C file under calls of the character
\* operations of its rows.
SpecChars == InitSession /\ [][NextChars]_vars

\* ------------------------------------------------------------------------
\* Leaving the editor
\* ------------------------------------------------------------------------
NextQuit ==
  \/ Refresh
  \/ KeyQuit
  \/ KeyChar
  \/ KeySave
  \/ KeyNoop

\* Typed and loaded documents under Ctrl-Q, Ctrl-S and other keys; after
\* exit(0) nothing more happens.
SpecQuit == InitSave /\ [][NextQuit]_vars

\* ------------------------------------------------------------------------
\* Claims
\* ------------------------------------------------------------------------
\* What row j (C index) of e must hold to be consistent with its raw text
\* and with the trailing state its predecessor has now.
ExpectedRender(e, j) == RenderFrom(e.row[j + 1].c, 0, <<>>)

ExpectedClass(e, j) ==
  IF e.syntax = 0
  THEN [hl |-> [k \in 1..Len(e.row[j + 1].render) |-> HL_NORMAL], in_comment |-> FALSE]
  ELSE Classify(e.syntax, e.row[j + 1].render, j > 0 /\ e.row[j].hl_open_comment)

RowConsistent(e, j) ==
  /\ e.row[j + 1].render = ExpectedRender(e, j)
  /\ e.row[j + 1].hl = ExpectedClass(e, j).hl
  /\ e.row[j + 1].hl_open_comment = ExpectedClass(e, j).in_comment

\* The raw text of the document, row by row.
RawText(e) == [j \in 1..e.num_rows |-> e.row[j].c]

\* C1: after any sequence of document mutations every row's render is the
\* tab expansion of its raw text, and its highlight array and trailing state
\* are the classification of that render from the current trailing state of
\* the row before it (false for row 0).
C1_NoStaleRow ==
  \A j \in 0..ec.num_rows - 1 : RowConsistent(ec, j)

\* C2: after every document mutation every row has length(render) >=
\* length(raw) and length(highlight) = length(render).
C2_Lengths ==
  \A j \in 1..Len(ec.row) :
    /\ Len(ec.row[j].render) >= Len(ec.row[j].c)
    /\ Len(ec.row[j].hl) = Len(ec.row[j].render)

\* C2 witness: mutations have happened, and the document holds a row whose
\* tab makes the render longer than the raw text next to other rows.
C2_Witness ==
  /\ ec.dirty >= 2
  /\ ec.num_rows >= 2
  /\ \E j \in 1..ec.num_rows :
       /\ \E k \in 1..Len(ec.row[j].c) : ec.row[j].c[k] = TAB
       /\ Len(ec.row[j].c) >= 2
       /\ Len(ec.row[j].render) > Len(ec.row[j].c)

\* C3: the stored index of every row is its position in the document, and
\* row_count is the number of stored rows.
C3_Indices ==
  /\ ec.num_rows = Len(ec.row)
  /\ \A j \in 0..ec.num_rows - 1 : ec.row[j + 1].idx = j

\* C3 witness: rows were inserted and deleted (the document is not what any
\* file of the model loads) and several rows are left.
C3_Witness ==
  /\ ec.dirty >= 3
  /\ ec.num_rows >= 3
  /\ \E j \in 1..ec.num_rows : ec.row[j].c = <<>>

\* C6: dirty is 0 right after load; a step that changes the document's
\* content leaves dirty strictly greater; dirty decreases only by a
\* successful save setting it to 0; a failed or an aborted save leaves it
\* unchanged.
C6_Dirty ==
  /\ ec.dirty = 0
  /\ [][/\ RawText(ec') # RawText(ec) => ec'.dirty > ec.dirty
        /\ ec'.dirty < ec.dirty =>
             /\ ec'.dirty = 0
             /\ \E name \in FileNames \cup {NULL} :
                  /\ ~(ec.filename = NULL /\ name = NULL)
                  /\ ec' = editor_save(ec, name, TRUE)
        /\ \A name \in FileNames \cup {NULL} :
             editor_save(ec, name, FALSE).dirty = ec.dirty
        /\ ec.filename = NULL => \A io_ok \in BOOLEAN :
             editor_save(ec, NULL, io_ok).dirty = ec.dirty]_vars

\* C6 witness: a document typed into the empty editor and then saved under
\* a new name: its content was mutated and dirty is 0 again.
C6_Witness ==
  /\ ec.filename = <<"a">>
  /\ ec.num_rows > 0
  /\ ec.dirty = 0

\* C4: for every row and every cx in 0..length,
\* render_to_char(row, char_to_render(row, cx)) = cx, and render_to_char of
\* any rx at or behind the row's full render width is the raw length.
C4_RoundTrip ==
  \A j \in 1..ec.num_rows :
    LET r == ec.row[j]
        width == editor_row_cx2rx(r, Len(r.c))
    IN /\ \A cx \in 0..Len(r.c) : editor_row_rx2cx(r, editor_row_cx2rx(r, cx)) = cx
       /\ \A rx \in width..width + TAB_STOP : editor_row_rx2cx(r, rx) = Len(r.c)

\* C4 witness: render_to_char was called with the render column of a raw
\* column that lies behind a tab and a letter, and gave that column back.
C4_Witness ==
  /\ probe.op = "rx2cx"
  /\ probe.cx >= 2 /\ probe.cx < Len(ec.row[1].c)
  /\ probe.rx = editor_row_cx2rx(ec.row[1], probe.cx)
  /\ probe.rx > probe.cx
  /\ \E k \in 1..probe.cx : ec.row[1].c[k] = TAB
  /\ \E k \in 1..probe.cx : ec.row[1].c[k] # TAB

\* C5: the render agrees with char_to_render: a non-tab character raw[cx]
\* is render[char_to_render(cx)]; a tab at cx is the 1 to 8 spaces of the
\* render columns char_to_render(cx) .. char_to_render(cx + 1) - 1, and
\* char_to_render(cx + 1) is a multiple of 8; length(render) is
\* char_to_render(length(raw)).
C5_RenderAgrees ==
  \A j \in 1..ec.num_rows :
    LET r == ec.row[j]
        rx(cx) == editor_row_cx2rx(r, cx)
    IN /\ Len(r.render) = rx(Len(r.c))
       /\ \A cx \in 0..Len(r.c) - 1 :
            IF r.c[cx + 1] = TAB
            THEN /\ rx(cx + 1) - rx(cx) \in 1..8
                 /\ rx(cx + 1) % 8 = 0
                 /\ rx(cx + 1) <= Len(r.render)
                 /\ \A k \in rx(cx)..rx(cx + 1) - 1 : r.render[k + 1] = " "
            ELSE /\ rx(cx) < Len(r.render)
                 /\ r.render[rx(cx) + 1] = r.c[cx + 1]

\* C5 witness: char_to_render was called on a row in which one tab takes a
\* single render column and another takes all eight.
C5_Witness ==
  /\ probe.op = "cx2rx"
  /\ probe.cx = Len(ec.row[1].c)
  /\ \E cx \in 0..Len(ec.row[1].c) - 1 :
       /\ ec.row[1].c[cx + 1] = TAB
       /\ editor_row_cx2rx(ec.row[1], cx + 1) - editor_row_cx2rx(ec.row[1], cx) = 1
  /\ \E cx \in 0..Len(ec.row[1].c) - 1 :
       /\ ec.row[1].c[cx + 1] = TAB
       /\ editor_row_cx2rx(ec.row[1], cx + 1) - editor_row_cx2rx(ec.row[1], cx) = 8

\* Row j (C index) is the row whose highlight the search has marked and
\* holds a snapshot of.
Marked(j, shl, line) == shl # NULL /\ line = j

\* C7: once a keystroke of the search leaves a row that was marked MATCH
\* unmarked (the query has no match, the match is on another row, confirm,
\* cancel), that row's highlight array equals, cell for cell, what it was
\* before it was marked.  The snapshot taken when a row is marked is the
\* row's array before the marking, it is kept while the row stays marked,
\* it is what the row holds when the mark leaves, and no other row's array
\* changes; outside a search nothing is marked.
C7_HighlightRestored ==
  /\ [](mode = "edit" =>
          /\ saved_hl = NULL
          /\ \A j \in 1..ec.num_rows : \A k \in 1..Len(ec.row[j].hl) : ec.row[j].hl[k] # HL_MATCH)
  /\ [][\A j \in 0..ec.num_rows - 1 :
          LET was == Marked(j, saved_hl, saved_hl_line)
              is == Marked(j, saved_hl', saved_hl_line')
          IN /\ (was /\ ~is) => ec'.row[j + 1].hl = saved_hl
             /\ (~was /\ is) => saved_hl' = ec.row[j + 1].hl
             /\ (was /\ is) => saved_hl' = saved_hl
             /\ (~was /\ ~is) => ec'.row[j + 1].hl = ec.row[j + 1].hl]_vars

\* C7 witness: the query "/" had marked a match on the comment row "/*";
\* the next character made it "//", which no row contains, and the row is
\* all comment again.
C7_Witness ==
  /\ mode = "find"
  /\ pc = "refresh"
  /\ buf = <<"/", "/">>
  /\ prompt_c = "/"
  /\ last_match = -1
  /\ saved_hl = NULL
  /\ ec.num_rows > 0
  /\ ec.row[1].c = <<"/", "*">>
  /\ ec.row[1].hl = <<HL_MLCOMMENT, HL_MLCOMMENT>>

\* The cursor and the two offsets of e.
View(e) == [cx |-> e.cursor_x, cy |-> e.cursor_y, col_off |-> e.clo_off, row_off |-> e.row_off]

\* C8: a search that ends by cancel leaves cursor (cx, cy), row_offset and
\* col_offset at the values they had when the search began, whatever
\* matches were visited; one that ends by confirm restores none of them,
\* and the cursor stays on the last match found: the values are captured
\* when the search begins and kept through it, a key of the search moves
\* the cursor only onto a match of the query, cancel puts the captured
\* values back, confirm changes none of the four.
C8_CancelRestores ==
  [][/\ (mode = "edit" /\ mode' = "find") => (saved' = View(ec) /\ ec' = ec)
     /\ mode = "find" => saved' = saved
     /\ (mode = "find" /\ pc = "key" /\ mode' = "find") =>
          \/ ec'.cursor_x = ec.cursor_x /\ ec'.cursor_y = ec.cursor_y
          \/ /\ last_match' # -1
             /\ ec'.cursor_y = last_match'
             /\ Strstr(ec.row[last_match' + 1].render, buf') # -1
             /\ ec'.cursor_x = editor_row_rx2cx(ec.row[last_match' + 1],
                                                Strstr(ec.row[last_match' + 1].render, buf'))
     /\ (mode = "find" /\ mode' = "edit") =>
          IF prompt_c' = "ESC" THEN View(ec') = saved
          ELSE prompt_c' = "\r" /\ View(ec') = View(ec)]_vars

\* C8 witness: the second search ended by cancel.  It began on row 2,
\* where the first search had left the cursor when it was confirmed; it
\* visited a match on row 0; the cursor is on row 2 again.
C8_Witness ==
  /\ mode = "edit"
  /\ prompt_c = "ESC"
  /\ nkeys = 2
  /\ saved_hl_line = 0
  /\ ec.cursor_y = 2
  /\ View(ec) = saved

\* The rows of e, from row `first` in direction dir around the document,
\* whose render holds the query: position k of the walk is row
\* (first + dir * (k - 1)) modulo the row count.
WalkRow(e, first, dir, k) == (first + dir * (k - 1) + e.num_rows * e.num_rows) % e.num_rows
WalkHits(e, query, first, dir) ==
  {k \in 1..e.num_rows : Strstr(e.row[WalkRow(e, first, dir, k) + 1].render, query) # -1}

\* The search step from the current state landed where a walk of all rows
\* from row `first` in direction dir first finds the query, and changed
\* neither last_match nor the cursor when no row holds it.
StepFinds(first, dir) ==
  LET hits == WalkHits(ec, buf, first, dir)
  IN IF hits = {}
     THEN /\ last_match' = last_match
          /\ ec'.cursor_x = ec.cursor_x /\ ec'.cursor_y = ec.cursor_y
     ELSE LET k == CHOOSE h \in hits : \A g \in hits : h <= g
              r == WalkRow(ec, first, dir, k)
          IN /\ last_match' = r
             /\ ec'.cursor_y = r
             /\ ec'.cursor_x = editor_row_rx2cx(ec.row[r + 1], Strstr(ec.row[r + 1].render, buf))

\* C9: a forward (next) step of the search from last_match_row = m looks at
\* rows m+1, m+2, ... wrapping from the last row to row 0, at no more than
\* row_count rows, row m itself last, and stops at the first whose render
\* holds the query; from the last row it wraps and finds a match on row 0.
C9_ForwardWrap ==
  [][(mode = "find" /\ pc = "key" /\ prompt_c' \in {"ARROW_RIGHT", "ARROW_DOWN"}) =>
       /\ direction' = 1
       /\ StepFinds(last_match + 1, 1)]_vars

\* C9 witness: of three rows the first and the last hold the query, and a
\* next key has moved the match from the last row to row 0.
C9_Witness ==
  /\ mode = "find"
  /\ pc = "refresh"
  /\ prompt_c \in {"ARROW_RIGHT", "ARROW_DOWN"}
  /\ buf # <<>>
  /\ ec.num_rows = 3
  /\ Strstr(ec.row[2].render, buf) = -1
  /\ Strstr(ec.row[3].render, buf) # -1
  /\ last_match = 0

\* C10 as stated: on every previous key (left or up arrow) of the search,
\* for every last_match_row, none included, the direction is backward: the
\* scan starts at last_match_row - 1, wrapped below 0 to the last row,
\* visits rows in decreasing order, and hits the nearest row before the
\* starting point that holds the query.
C10_AlwaysBackward ==
  [][(mode = "find" /\ pc = "key" /\ prompt_c' \in {"ARROW_LEFT", "ARROW_UP"}) =>
       /\ direction' = -1
       /\ StepFinds(IF last_match - 1 < 0 THEN ec.num_rows - 1 ELSE last_match - 1, -1)]_vars

\* C10 as the code has it: on a previous key with last_match_row = m other
\* than none the direction is backward and the hit is the nearest row
\* holding the query on the walk m-1, m-2, ... wrapped below 0 to the last
\* row, m itself last; with last_match_row none the direction is forward
\* and the walk runs from row 0 upwards.
C10_Previous ==
  [][(mode = "find" /\ pc = "key" /\ prompt_c' \in {"ARROW_LEFT", "ARROW_UP"}) =>
       IF last_match = -1
       THEN direction' = 1 /\ StepFinds(0, 1)
       ELSE /\ direction' = -1
            /\ StepFinds(IF last_match - 1 < 0 THEN ec.num_rows - 1 ELSE last_match - 1, -1)]_vars

\* C10 witness: of three rows the first and the last hold the query, and a
\* previous key has moved the match from row 0 backwards to the last row.
C10_Witness ==
  /\ mode = "find"
  /\ pc = "refresh"
  /\ prompt_c \in {"ARROW_LEFT", "ARROW_UP"}
  /\ direction = -1
  /\ buf # <<>>
  /\ ec.num_rows = 3
  /\ Strstr(ec.row[1].render, buf) # -1
  /\ Strstr(ec.row[2].render, buf) = -1
  /\ last_match = 2

\* The search step from the current state, run with query q, landed where
\* a walk of all rows from row `first` in direction dir first finds q, and
\* changed neither last_match nor the cursor when no row holds it.
ScanLands(q, first, dir) ==
  LET hits == WalkHits(ec, q, first, dir)
  IN IF hits = {}
     THEN /\ last_match' = last_match
          /\ ec'.cursor_x = ec.cursor_x /\ ec'.cursor_y = ec.cursor_y
     ELSE LET k == CHOOSE h \in hits : \A g \in hits : h <= g
              r == WalkRow(ec, first, dir, k)
          IN /\ last_match' = r
             /\ ec'.cursor_y = r
             /\ ec'.cursor_x = editor_row_rx2cx(ec.row[r + 1], Strstr(ec.row[r + 1].render, q))

\* C11: every search session, however it ends and whatever keys it got,
\* leaves last_match none, direction forward and no highlight snapshot, so
\* the first scan of every later session starts at row 0 going forward:
\* outside a search the three statics are reset, and in a search that has
\* not scanned yet (no key read, or only Enter on the empty query) the
\* first scanning key lands on the first row from row 0 downwards that
\* holds the query.
C11_SessionReset ==
  /\ [](mode = "edit" => (last_match = -1 /\ direction = 1 /\ saved_hl = NULL))
  /\ [][(mode = "find" /\ pc = "key" /\ prompt_c \in {NUL, "\r"}
         /\ mode' = "find" /\ prompt_c' # "\r") =>
          (direction' = 1 /\ ScanLands(buf', 0, 1))]_vars

\* C11 witness: a second search, begun on row 2 where a confirmed first
\* search had left the cursor on its last match, has scanned and its match
\* is on row 0.
C11_Witness ==
  /\ mode = "find"
  /\ pc = "refresh"
  /\ nkeys = 1
  /\ saved.cy = 2
  /\ buf # <<>>
  /\ direction = 1
  /\ last_match = 0
  /\ ec.cursor_y = 0

\* C12: after editor_scroll, with at least one screen row and one screen
\* column and the cursor wherever editing, navigation and search take it,
\* row_offset <= cursor_row < row_offset + screen_rows and
\* col_offset <= render_x < col_offset + screen_cols, where render_x is
\* char_to_render of the cursor column in the cursor's row (0 on the row
\* past the end); row_offset and col_offset are never negative.
C12_CursorVisible ==
  /\ ec.row_off >= 0
  /\ ec.clo_off >= 0
  /\ pc = "key" =>
       /\ ec.row_off <= ec.cursor_y
       /\ ec.cursor_y < ec.row_off + ScreenRows
       /\ ec.render_x = IF ec.cursor_y < ec.num_rows
                        THEN editor_row_cx2rx(ec.row[ec.cursor_y + 1], ec.cursor_x) ELSE 0
       /\ ec.clo_off <= ec.render_x
       /\ ec.render_x < ec.clo_off + ScreenCols

\* C12 witness: editor_scroll has moved both offsets off zero to show a
\* cursor that stands behind a tab on a row below the first screen.
C12_Witness ==
  /\ pc = "key"
  /\ ec.row_off > 0
  /\ ec.clo_off > 0
  /\ ec.cursor_y = ec.row_off + ScreenRows - 1
  /\ ec.render_x = ec.clo_off + ScreenCols - 1
  /\ ec.render_x > ec.cursor_x

\* The editor after a newline with the cursor at column k of row j (C
\* index), and after the backspace that follows it.
SplitAt(e, j, k) == editor_insert_newline([e EXCEPT !.cursor_y = j, !.cursor_x = k])
MergeBack(e, j, k) == editor_del_char(SplitAt(e, j, k))

\* C13: for every row and every offset k in 0..length, splitting the row
\* at k (newline with the cursor there) and merging the two rows back
\* (backspace at column 0 of the new row) gives the raw content of the
\* row back exactly, restores row_count and leaves every other row's raw
\* content as it was.
C13_SplitMerge ==
  \A j \in 0..ec.num_rows - 1 : \A k \in 0..Len(ec.row[j + 1].c) :
    LET c == ec.row[j + 1].c
        e1 == SplitAt(ec, j, k)
        e2 == MergeBack(ec, j, k)
    IN /\ e1.num_rows = ec.num_rows + 1
       /\ e1.cursor_y = j + 1 /\ e1.cursor_x = 0
       /\ e1.row[j + 1].c = SubSeq(c, 1, k)
       /\ e1.row[j + 2].c = SubSeq(c, k + 1, Len(c))
       /\ e2.num_rows = ec.num_rows
       /\ RawText(e2) = RawText(ec)
       /\ e2.cursor_y = j /\ e2.cursor_x = k

\* C13 witness: typing the row "/*" left the dirty counter at three, and
\* two more keys have raised it by three, which only Enter (one) followed
\* by the Backspace that merges (two) does: the row was split between its
\* two characters and merged back.
C13_Witness ==
  /\ nkeys = 2
  /\ ec.filename = NULL
  /\ ec.dirty = 6
  /\ ec.cursor_y = 0 /\ ec.cursor_x = 1
  /\ RawText(ec) = <<<<"/", "*">>>>

\* The raw texts one key makes of c: c itself, c with a typed character
\* put in anywhere, c with one character taken out.
OneEdit(c) ==
  {c}
  \cup {SubSeq(c, 1, at) \o <<ch>> \o SubSeq(c, at + 1, Len(c)) : at \in 0..Len(c), ch \in TypedChars}
  \cup {SubSeq(c, 1, at) \o SubSeq(c, at + 2, Len(c)) : at \in 0..Len(c) - 1}

\* Editor e with raw text c2 and its render in row j, its highlight not
\* yet computed: what editor_update_row hands to editor_update_syntax.
Unclassified(e, j, c2) ==
  [e EXCEPT !.row[j + 1].c = c2, !.row[j + 1].render = RenderFrom(c2, 0, <<>>)]

\* e with every highlight cell overwritten by a value no classification
\* writes, so that a row classified afterwards shows.
Poisoned(e) ==
  [e EXCEPT !.row = [j \in 1..Len(e.row) |->
                       [e.row[j] EXCEPT !.hl = [k \in 1..Len(e.row[j].hl) |-> "POISON"]]]]

\* The cascade started by classifying row i of e: the calls are for rows
\* i, i+1, ... in increasing order, one call a row, no more than
\* row_count - i of them; every row called for except the last has changed
\* its trailing state, and the last has not unless it is the last row of
\* the document; rows not called for keep highlight and trailing state.
CascadeBounded(e, i) ==
  LET t == CascadeRows(e, i)
      after == editor_update_syntax(Poisoned(e), i)
      called == {t[k] : k \in 1..Len(t)}
  IN /\ \A k \in 1..Len(t) : t[k] = i + k - 1
     /\ Len(t) <= e.num_rows - i
     /\ \A k \in 1..Len(t) - 1 :
          after.row[t[k] + 1].hl_open_comment # e.row[t[k] + 1].hl_open_comment
     /\ \/ t[Len(t)] = e.num_rows - 1
        \/ after.row[t[Len(t)] + 1].hl_open_comment = e.row[t[Len(t)] + 1].hl_open_comment
     /\ \A j \in 0..e.num_rows - 1 :
          IF j \in called
          THEN \A k \in 1..Len(after.row[j + 1].hl) : after.row[j + 1].hl[k] # "POISON"
          ELSE /\ after.row[j + 1].hl = Poisoned(e).row[j + 1].hl
               /\ after.row[j + 1].hl_open_comment = e.row[j + 1].hl_open_comment

\* C14: the cascade started by classifying row i always terminates: it
\* re-classifies rows i+1, i+2, ... in increasing order, each at most
\* once, goes on to the next row only when the row just classified changed
\* its trailing state, and classifies at most row_count - i rows in all.
\* Checked for every row of the document and every text one key makes of
\* that row, under the C syntax.
C14_CascadeTerminates ==
  \A i \in 0..ec.num_rows - 1 : \A c2 \in OneEdit(ec.row[i + 1].c) :
    CascadeBounded(Unclassified(ec, i, c2), i)

\* C14 witness: a slash and a star typed at the start of the first row
\* opened a block comment there; the cascade changed the trailing state of
\* the empty second row and stopped at the third, which had been open
\* before.
C14_Witness ==
  /\ ec.dirty = 2
  /\ RawText(ec) = <<<<"/", "*", "\t", "/">>, <<>>, <<"/", "*">>>>
  /\ \A j \in 1..3 : ec.row[j].hl_open_comment
  /\ ec.row[3].hl = <<HL_MLCOMMENT, HL_MLCOMMENT>>

\* Every row of e is consistent with its predecessor's trailing state.
Stable(e) == \A j \in 0..e.num_rows - 1 : RowConsistent(e, j)

\* C15: on a document in which every row is consistent with its
\* predecessor's trailing state, classifying any row again changes
\* nothing: every highlight array and every trailing state is as before,
\* and the call does not go on to the following row.
C15_Idempotent ==
  Stable(ec) =>
    \A i \in 0..ec.num_rows - 1 :
      /\ editor_update_syntax(ec, i) = ec
      /\ CascadeRows(ec, i) = <<i>>

\* C15 witness: an edited C file of two rows, all consistent, in which a
\* block comment opened behind the first cell of the first row runs to the
\* end.
C15_Witness ==
  /\ Stable(ec)
  /\ ec.syntax = 1
  /\ ec.dirty > 0
  /\ ec.num_rows = 2
  /\ \A j \in 1..2 : ec.row[j].hl_open_comment
  /\ ec.row[1].hl[1] = HL_NORMAL
  /\ Len(ec.row[2].render) > 0

\* Cell k (from 1) of row j (C index) lies in the span the search has
\* marked: the first occurrence of the query in the row it holds a
\* snapshot of.
InMatchSpan(j, k) ==
  /\ mode = "find"
  /\ saved_hl # NULL
  /\ saved_hl_line = j
  /\ LET match == Strstr(ec.row[j + 1].render, buf)
     IN match # -1 /\ k > match /\ k <= match + Len(buf)

\* C16: while no syntax definition is active, after any sequence of
\* operations every row has trailing state false and every highlight cell
\* NORMAL, apart from the MATCH cells a running search has marked.
C16_NoSyntaxAllNormal ==
  ec.syntax = 0 =>
    \A j \in 0..ec.num_rows - 1 :
      /\ ~ec.row[j + 1].hl_open_comment
      /\ Len(ec.row[j + 1].hl) = Len(ec.row[j + 1].render)
      /\ \A k \in 1..Len(ec.row[j + 1].hl) :
           IF InMatchSpan(j, k) THEN ec.row[j + 1].hl[k] = HL_MATCH
           ELSE ec.row[j + 1].hl[k] = HL_NORMAL

\* C16 witness: a row that would open a block comment in C was typed into
\* the unnamed buffer and saved under a name no syntax matches; its cells
\* are NORMAL and its trailing state is false.
C16_Witness ==
  /\ ec.syntax = 0
  /\ ec.filename = <<"a">>
  /\ RawText(ec) = <<<<"/", "*">>>>
  /\ ec.row[1].hl = <<HL_NORMAL, HL_NORMAL>>
  /\ ~ec.row[1].hl_open_comment

\* The keyword entries of class hlc in the C table, without the marker.
KeywordTexts(hlc) ==
  {SubSeq(C_HL_KEY[j], 1, KeywordLen(C_HL_KEY[j])) :
     j \in {i \in 1..Len(C_HL_KEY) : (C_HL_KEY[i][Len(C_HL_KEY[i])] = "|") = (hlc = HL_KEYWORD2)}}

\* The maximal runs of cells of class hlc in row r: <<a, b>> for the C
\* positions a .. b - 1.
ClassRuns(r, hlc) ==
  {ab \in (0..Len(r.hl)) \X (0..Len(r.hl)) :
     /\ ab[1] < ab[2]
     /\ \A k \in ab[1] + 1..ab[2] : r.hl[k] = hlc
     /\ ab[1] = 0 \/ r.hl[ab[1]] # hlc
     /\ ab[2] = Len(r.hl) \/ r.hl[ab[2] + 1] # hlc}

\* Both examples of the claim: no KEYWORD2 cell in "integer"; the first three
\* cells of "int x", and no other, are KEYWORD2.
KeywordExamples(r) ==
  /\ r.c = <<"i", "n", "t", "e", "g", "e", "r">> => \A k \in 1..Len(r.hl) : r.hl[k] # HL_KEYWORD2
  /\ r.c = <<"i", "n", "t", " ", "x">> =>
       r.hl = <<HL_KEYWORD2, HL_KEYWORD2, HL_KEYWORD2, HL_NORMAL, HL_NORMAL>>

C18_OutOfRangeNoOp ==
  [][nkeys' = nkeys + 1 =>
       LET at == probe'.cx
           inrange ==
             CASE probe'.op = "editor_insert_row" -> at >= 0 /\ at <= ec.num_rows
               [] probe'.op = "editor_del_row" -> at >= 0 /\ at < ec.num_rows
               [] probe'.op = "editor_row_del_char" -> at >= 0 /\ at < Len(ec.row[probe'.rx + 1].c)
               [] OTHER -> TRUE
       IN IF inrange THEN ec'.dirty = ec.dirty + 1 /\ RawText(ec') # RawText(ec)
          ELSE ec' = ec]_vars

\* C18 witness: after a call that changed the document, editor_del_row was
\* called with index -1 on a document that has rows.
C18_Witness ==
  /\ probe.op = "editor_del_row"
  /\ probe.cx = -1
  /\ nkeys = 2
  /\ ec.dirty = 1
  /\ ec.num_rows > 0

\* The call of editor_row_insert_char just made has put one typed
\* character in at offset off of its row and left the other rows' text.
InsertedAt(off) ==
  LET p == probe'.rx
      c == ec.row[p + 1].c
      c2 == ec'.row[p + 1].c
  IN /\ Len(c2) = Len(c) + 1
     /\ c2[off + 1] \in TypedChars
     /\ SubSeq(c2, 1, off) = SubSeq(c, 1, off)
     /\ SubSeq(c2, off + 2, Len(c2)) = SubSeq(c, off + 1, Len(c))
     /\ ec'.num_rows = ec.num_rows
     /\ \A j \in 1..ec.num_rows : j # p + 1 => ec'.row[j].c = ec.row[j].c

\* C19 as stated: editor_row_insert_char(row, at, ch) inserts ch at the
\* offset got by clamping at to [0, row.len]: at < 0 inserts at offset 0,
\* at > row.len at offset row.len, and 0 <= at <= row.len at offset at;
\* the row grows by one character and the others keep their order.
C19_InsertClamped ==
  [][(nkeys' = nkeys + 1 /\ probe'.op = "editor_row_insert_char") =>
       LET len == Len(ec.row[probe'.rx + 1].c)
           at == probe'.cx
       IN InsertedAt(IF at < 0 THEN 0 ELSE IF at > len THEN len ELSE at)]_vars

\* C19 as the code has it: an at below 0 or above row.len inserts at
\* offset row.len, the end of the row, and 0 <= at <= row.len inserts at
\* offset at; the row grows by one character and the others keep their
\* order.
C19_InsertAtOrEnd ==
  [][(nkeys' = nkeys + 1 /\ probe'.op = "editor_row_insert_char") =>
       LET len == Len(ec.row[probe'.rx + 1].c)
           at == probe'.cx
       IN InsertedAt(IF at < 0 \/ at > len THEN len ELSE at)]_vars

\* C19 witness: editor_row_insert_char was called with index -1 on the row
\* "/*" and the star went to the end of the row.
C19_Witness ==
  /\ probe.op = "editor_row_insert_char"
  /\ probe.cx = -1
  /\ nkeys = 1
  /\ ec.row[probe.rx + 1].c = <<"/", "*", "*">>

\* The syntax definition editor_select_syntax_highlight finds for a name.
SyntaxOf(name) ==
  IF name # NULL /\ \E j \in 1..HLDB_ENTRIES : SyntaxMatches(name, HLDB[j])
  THEN CHOOSE j \in 1..HLDB_ENTRIES :
         /\ SyntaxMatches(name, HLDB[j])
         /\ \A k \in 1..j - 1 : ~SyntaxMatches(name, HLDB[k])
  ELSE 0

\* C20: the active syntax definition is chosen only when a file name
\* becomes known, at open or at the save-as that first sets the name: it is
\* the one the name selects, the name and the definition change in no later
\* step, whether a save fails or is repeated, and the save-as that chooses
\* it leaves every row classified consistently under the new definition.
C20_SyntaxChosenWithName ==
  /\ [](ec.syntax = SyntaxOf(ec.filename))
  /\ [][/\ ec.filename # NULL => (ec'.filename = ec.filename /\ ec'.syntax = ec.syntax)
        /\ ec'.syntax # ec.syntax => (ec.filename = NULL /\ ec'.filename # NULL)
        /\ (ec.filename = NULL /\ ec'.filename # NULL) =>
             (RawText(ec') = RawText(ec) /\ Stable(ec'))]_vars

\* C20 witness: the typed rows "/*" and "/" were saved as a.c, the write
\* failed, and the second row is classified as inside the comment.
C20_Witness ==
  /\ nkeys = 1
  /\ ec.filename = OpenName
  /\ ec.syntax = 1
  /\ ec.dirty # 0
  /\ RawText(ec) = <<<<"/", "*">>, <<"/">>>>
  /\ ec.row[1].hl_open_comment
  /\ ec.row[2].hl = <<HL_MLCOMMENT>>

\* The rows (C index) of e whose render contains q.
RowsWith(e, q) == {j \in 0..e.num_rows - 1 : Strstr(e.row[j + 1].render, q) # -1}

\* The keys of the search prompt that do not edit the query.
NoEditKeys == {"ARROW_UP", "ARROW_DOWN", "ARROW_LEFT", "ARROW_RIGHT", "\r", "ESC"}

\* C21: during a search, a key that is neither an arrow nor Enter nor ESC
\* resets last_match and the direction, so its scan starts at row 0: the
\* row found is the lowest row whose render contains the query, the
\* cursor goes to that row and to editor_row_rx2cx of the start of the
\* first occurrence, and the query's length of cells there, no other, is
\* marked MATCH; when no row contains the query, the cursor, the offsets
\* and every highlight array stay as they were before the scan.
C21_QueryEditScansFromTop ==
  [][(mode = "find" /\ mode' = "find" /\ pc = "key" /\ prompt_c' \notin NoEditKeys) =>
       \A before \in {FindRestore(ec, saved_hl_line, saved_hl)} :
       \A hits \in {RowsWith(before, buf')} :
          /\ direction' = 1
          /\ ec'.row_off = ec.row_off /\ ec'.clo_off = ec.clo_off
          /\ IF hits = {}
             THEN /\ last_match' = -1
                  /\ ec'.cursor_x = ec.cursor_x /\ ec'.cursor_y = ec.cursor_y
                  /\ \A j \in 1..ec.num_rows : ec'.row[j].hl = before.row[j].hl
             ELSE \A first \in {CHOOSE j \in hits : \A k \in hits : j <= k} :
                  \A match \in {Strstr(before.row[first + 1].render, buf')} :
                     /\ last_match' = first
                     /\ ec'.cursor_y = first
                     /\ ec'.cursor_x = editor_row_rx2cx(before.row[first + 1], match)
                     /\ \A j \in 1..ec.num_rows : \A k \in 1..Len(before.row[j].hl) :
                          ec'.row[j].hl[k] =
                            IF j = first + 1 /\ k > match /\ k <= match + Len(buf')
                            THEN HL_MATCH ELSE before.row[j].hl[k]]_vars

\* C21 witness: the query "/" is in both rows and HOME was the last key
\* of the prompt: the first row is the match and is marked, the second
\* has no MATCH cell.
C21_Witness ==
  /\ mode = "find"
  /\ prompt_c = "HOME_KEY"
  /\ buf = <<"/">>
  /\ last_match = 0
  /\ ec.cursor_y = 0
  /\ saved.cy = 0
  /\ RowsWith(ec, buf) = {0, 1}
  /\ ec.row[1].hl[1] = HL_MATCH
  /\ \A k \in 1..Len(ec.row[2].hl) : ec.row[2].hl[k] # HL_MATCH

\* Row j (C index) of e lies behind row i and no row from i + 1 to j has
\* the end marker of a block comment in its render.
NoCloserUpTo(e, i, j) ==
  \A m \in i + 1..j : Strstr(e.row[m + 1].render, <<"*", "/">>) = -1

\* C22: the character operations keep the highlighting consistent: from
\* a document in which every row is consistent with its predecessor's
\* trailing state, editor_row_insert_char, editor_row_del_char and
\* editor_row_append_str on a row leave every row consistent again.  In
\* particular when the call opens a block comment at the end of row i,
\* the rows behind it up to the first one with an end marker have trailing
\* state true and MLCOMMENT in every cell, and taking the typed character
\* out again gives every row the highlighting it had.
C22_CharEditsConsistent ==
  /\ [](Stable(ec))
  /\ [][(nkeys' = nkeys + 1
           /\ ~ec.row[probe'.rx + 1].hl_open_comment
           /\ ec'.row[probe'.rx + 1].hl_open_comment) =>
          /\ \A j \in probe'.rx + 1..ec.num_rows - 1 :
               NoCloserUpTo(ec, probe'.rx, j) =>
                 /\ ec'.row[j + 1].hl_open_comment
                 /\ \A k \in 1..Len(ec'.row[j + 1].hl) : ec'.row[j + 1].hl[k] = HL_MLCOMMENT
          /\ probe'.op = "editor_row_insert_char" =>
               editor_row_del_char(ec', probe'.rx, probe'.cx).row = ec.row]_vars

\* C22 witness: a star typed behind the slash of the first row has opened
\* a block comment that runs over the empty second row and the third.
C22_Witness ==
  /\ probe.op = "editor_row_insert_char"
  /\ probe.rx = 0
  /\ nkeys = 1
  /\ RawText(ec) = <<<<"\t", "/", "*">>, <<>>, <<"/", "*">>>>
  /\ \A j \in 1..3 : ec.row[j].hl_open_comment
  /\ ec.row[3].hl = <<HL_MLCOMMENT, HL_MLCOMMENT>>

C24_DeleteRowConsistent ==
  [][(Stable(ec)
        /\ ec'.num_rows = ec.num_rows - 1
        /\ ec'.cursor_y + 1 < ec'.num_rows) =>
       RowConsistent(ec', ec'.cursor_y + 1)]_vars

\* The passes of the scan of row j (from 1) of e.
RowScan(e, j) ==
  ScanStates(HLDB[e.syntax], e.row[j].render, [k \in 1..Len(e.row[j].render) |-> HL_NORMAL],
             0, TRUE, NUL, j > 1 /\ e.row[j - 1].hl_open_comment)

\* The start marker of the block comment stands at position i of render.
MarkerAt(e, render, i) == StartsWith(render, i, HLDB[e.syntax].multiline_comment_start)

\* The rows in which the scan meets a start marker only inside a string.
MarkerOnlyInString(e, j) ==
  LET t == RowScan(e, j)
      at == {n \in 1..Len(t) - 1 : MarkerAt(e, e.row[j].render, t[n].i)}
  IN /\ at # {}
     /\ \A n \in at : t[n].in_string # NUL

Minimal(off, pos, size) ==
  IF off <= pos /\ pos < off + size THEN off
  ELSE IF pos < off THEN pos
  ELSE pos - size + 1

\* C26: scrolling is minimal: editor_scroll leaves row_off as it is when
\* the cursor row is inside the window, else sets it to the cursor row
\* (cursor above) or to cursor row - screen_rows + 1 (cursor below); the
\* same for the column offset with render_x and screen_cols; nothing of
\* the document, the cursor or the dirty counter changes.
C26_ScrollMinimal ==
  [][(pc = "refresh" /\ pc' = "key") =>
       /\ ec'.row_off = Minimal(ec.row_off, ec.cursor_y, ScreenRows)
       /\ ec'.clo_off = Minimal(ec.clo_off, ec'.render_x, ScreenCols)
       /\ ec' = [ec EXCEPT !.render_x = ec'.render_x,
                           !.row_off = ec'.row_off,
                           !.clo_off = ec'.clo_off]]_vars

\* C26 witness: editor_scroll has run after a key and the window stands
\* off the top and off the first column with the cursor in its first row
\* and first column: it was moved no further than the cursor asked for.
C26_Witness ==
  /\ pc = "key"
  /\ nkeys > 0
  /\ ec.row_off > 0
  /\ ec.cursor_y = ec.row_off
  /\ ec.clo_off > 0
  /\ ec.render_x = ec.clo_off

\* C27: with unsaved changes a Ctrl-Q only warns while the count of
\* warnings left is above zero and takes one off it, so that the editor
\* leaves with unsaved changes only on the third of three Ctrl-Q in a
\* row; every other key puts the count back to QUIT_TIMES; without
\* unsaved changes one Ctrl-Q leaves.  Nothing but Ctrl-Q leaves.
C27_QuitProtection ==
  /\ [](quit_times \in 0..QUIT_TIMES)
  /\ []((pc = "exit" /\ ec.dirty # 0) => (quit_times = 0 /\ nkeys >= QUIT_TIMES + 1))
  /\ [][/\ KeyQuit =>
             /\ ec' = ec
             /\ IF ec.dirty = 0 \/ quit_times = 0
                THEN pc' = "exit"
                ELSE pc' = "refresh" /\ quit_times' = quit_times - 1
        /\ (nkeys' = nkeys + 1 /\ ~KeyQuit) => quit_times' = QUIT_TIMES
        /\ (nkeys' = nkeys /\ quit_times' # quit_times) => FALSE
        /\ pc' = "exit" => KeyQuit]_vars

\* C27 witness: the editor has left with unsaved changes on its third key.
C27_Witness ==
  /\ pc = "exit"
  /\ ec.dirty # 0
  /\ nkeys = QUIT_TIMES + 1
  /\ quit_times = 0

\* C28: after every key, and at every step of a search, the cursor is
\* in the document: 0 <= cursor_y <= row_count, 0 <= cursor_x <= the
\* length of the row under the cursor, and cursor_x = 0 on the line past
\* the last row; so editor_row_cx2rx, editor_row_insert_char (at cursor_x)
\* and editor_row_del_char (at cursor_x - 1 when cursor_x > 0) get
\* columns in range.
C28_CursorInDocument ==
  /\ 0 <= ec.cursor_y /\ ec.cursor_y <= ec.num_rows
  /\ 0 <= ec.cursor_x
  /\ IF ec.cursor_y < ec.num_rows
     THEN ec.cursor_x <= Len(ec.row[ec.cursor_y + 1].c)
     ELSE ec.cursor_x = 0

\* C28 witness: keys have taken the cursor to the line past the last row
\* of a file whose last row is not empty, and it stands in column 0.
C28_Witness ==
  /\ nkeys > 0
  /\ mode = "edit"
  /\ ec.num_rows = 3
  /\ ec.cursor_y = ec.num_rows
  /\ ec.cursor_x = 0
  /\ Len(ec.row[3].c) > 0

\* The rows (C index) of e that have a MATCH cell.
MatchRows(e) ==
  {j \in 0..e.num_rows - 1 : \E k \in 1..Len(e.row[j + 1].hl) : e.row[j + 1].hl[k] = HL_MATCH}

\* C29: the MATCH marking is transient and in one row: during a search at
\* most one row has MATCH cells, and it is the row last_match whose
\* highlight snapshot is kept; outside a search no row has a MATCH cell;
\* and no step of a search, so no whole search, changes a row's raw text,
\* row_count or the dirty counter.
C29_MatchTransient ==
  /\ [](/\ Cardinality(MatchRows(ec)) <= 1
        /\ \A j \in MatchRows(ec) :
             /\ mode = "find"
             /\ saved_hl # NULL
             /\ saved_hl_line = j
             /\ last_match = j)
  /\ [][(mode = "find" \/ mode' = "find") =>
          /\ RawText(ec') = RawText(ec)
          /\ ec'.num_rows = ec.num_rows
          /\ ec'.dirty = ec.dirty]_vars

\* C29 witness: a search in an edited file has gone on from the first row
\* to the second, which alone is marked and is the row of the snapshot.
C29_Witness ==
  /\ mode = "find"
  /\ ec.dirty > 0
  /\ prompt_c = "ARROW_DOWN"
  /\ MatchRows(ec) = {1}
  /\ saved_hl_line = 1
  /\ last_match = 1
  /\ Strstr(ec.row[1].render, buf) # -1

====
